---- MODULE Spec2Model ----
(***************************************************************************)
(* A model of grammY runner: the sequentialize() middleware, and the       *)
(* runner loop that connects the update source (fetcher + generator) to    *)
(* the update sink (decaying deque).                                       *)
(*                                                                         *)
(* JavaScript is single threaded and runs every continuation to its next   *)
(* await; one action of the model is one such run.  A promise that is      *)
(* settled inside an action is recorded in the state, and the continuation *)
(* that awaits it is an action of its own.                                 *)
(***************************************************************************)
EXTENDS Integers, Sequences, FiniteSets, TLC

(***************************************************************************)
(* Bounds of the model                                                     *)
(***************************************************************************)
\* number of invocations of one sequentialize() middleware
NumInv == 3

\* number of start() calls on one runner handle (runner loops ever created)
MaxStarts == 2
\* update_ids the remote service holds: 1..MaxId
MaxId == 2
\* largest batch one getUpdates call returns in the model
RemoteMax == 2
\* the sink's concurrency limit L ranges over 1..MaxLimit
MaxLimit == 2
\* number of updates given to a deque whose add() is called from outside
\* the runner (so that its length is at most MaxQ)
MaxQ == 3
\* the clock of a fetchUpdates call stops at MaxNow (in units of 100 ms)
MaxNow == 6
\* maxRetryTime ranges over 0..MaxRetryTime
MaxRetryTime == 3
\* a numeric retryInterval ranges over 1..MaxInterval
MaxInterval == 2
\* largest `count` option given to distribute()
MaxCount == 3
\* largest update_id given to process()
MaxUpdateId == 5
\* number of process() calls
MaxCalls == 3

Keys == {"a", "b"}
\* what the constraint function returns, as an array (a single string is the
\* array of it); "" stands for a falsy entry (undefined or the empty string)
Constraints ==
    {<<"">>, <<"a">>, <<"b">>, <<"a", "b">>, <<"b", "a">>, <<"a", "a">>, <<"", "b">>}
Invs == 1..NumInv

Range(s) == {s[k] : k \in 1..Len(s)}

VARIABLES
    \* ---- sequentialize(): one middleware instance ----
    map,        \* key -> Clot {chain, len}, or NoClot when the key is absent
    ncalled,    \* number of invocations made so far (they arrive as 1, 2, ...)
    ipc,        \* invocation -> where its run()/middleware stands
    ics,        \* invocation -> cs, the filtered constraint array
    iprev,      \* invocation -> the chains its clot promise waits for
    inext,      \* invocation -> outcome of its next()
    itask,      \* invocation -> outcome of its task promise
    ires,       \* invocation -> outcome of the promise the middleware returned
    nstarts     \* invocation -> number of times its next() was called

seqVars == <<map, ncalled, ipc, ics, iprev, inext, itask, ires, nstarts>>

VARIABLES
    \* ---- createRunner ----
    running,    \* let running
    task,       \* let task: the runner() promise, 0 when undefined
    rpc,        \* runner() call -> where it stands
    rgen,       \* runner() call -> the generator its for-await iterates
    stopped,    \* the runner() promises that stop() has returned
    lastCmd,    \* the last call on the handle: start, stop, restart (a start
                \* after a stop); fatal once supply threw an error that is no abort
    \* ---- createSource ----
    active,
    controller, \* let controller: the generator that created it, 0 = undefined
    aborted,    \* generator -> the signal of its latest controller is raised
    updateGenerator,
    pace,
    endWait,    \* the generator whose pacing wait endWait() resolves, 0 = none
    gpc,        \* generator -> where worker() stands
    greq,       \* generator -> queue of pending next()/return() requests
    gargs,      \* generator -> args of its supply/getUpdates call
    gitems,     \* generator -> the batch supply returned
    gerr,       \* generator -> the error supply threw
    pacing,     \* speedTrafficBalance > 0
    \* ---- run / createUpdateFetcher ----
    offset,
    supplyInit, \* supplier.supply is still the wrapper that awaits bot.init()
    \* ---- DecayingDeque behind the sink ----
    limit,      \* concurrency
    timeout,    \* handlerTimeout is finite
    q,          \* the nodes, oldest first
    subs,       \* add() callers waiting for capacity, in call order
    hres,       \* caller -> the capacity its add() promise resolved with, or Unsettled
    hsize,      \* caller -> the deque's length when that promise was resolved
    hpos,       \* caller -> its place among the waiting calls when that promise
                \* was resolved (0: it was resolved by add() itself)
    ulog,       \* update -> what happened to its task so far (not program
                \* state; <<>> where no log is kept)
    \* ---- createSequentialSink / createBatchSink ----
    sink,       \* which sink owns the deque
    hcall       \* caller -> its handle() call

loopVars == <<running, task, rpc, rgen, stopped, lastCmd, active, controller, aborted,
              updateGenerator, pace, endWait, gpc, greq, gargs, gitems, gerr, pacing,
              supplyInit>>
runVars == <<loopVars, offset>>
dequeVars == <<limit, timeout, q, subs, hres, hsize, hpos, ulog, sink, hcall>>

VARIABLES
    \* ---- one fetchUpdates call with its clock ----
    fetch       \* the options, Date.now(), and the locals of the call

fetchVars == <<fetch>>

VARIABLES
    \* ---- distribute(): the pool of worker threads ----
    pool        \* count, the messages posted to and by each thread, tasks,
                \* and the process() calls made so far

poolVars == <<pool>>

vars == <<seqVars, runVars, dequeVars, fetchVars, poolVars>>

(***************************************************************************)
(* sequentialize()                                                         *)
(***************************************************************************)
NoClot == [chain |-> 0, len |-> -1]

\* the error thrown by the next() of invocation i
Err(i) == [st |-> "err", e |-> i]
\* a promise that has not settled, and one that fulfilled
Pending == [st |-> "pending", e |-> 0]
Ok == [st |-> "ok", e |-> 0]
IsErr(x) == x.st = "err"

\* cs = (Array.isArray(con) ? con : [con]).filter(cs => !!cs)
Normalize(con) == SelectSeq(con, LAMBDA c : c # "")

\* prev = cs.map(c => map.get(c) ?? map.set(c, {chain: Promise.resolve(), len: 0}))
\* the map after the lookups: every key of cs is present
RECURSIVE MapGetOrCreate(_, _)
MapGetOrCreate(m, cs) ==
    IF cs = <<>> THEN m
    ELSE LET c == Head(cs)
             m1 == IF m[c] = NoClot THEN [m EXCEPT ![c] = [chain |-> 0, len |-> 0]] ELSE m
         IN  MapGetOrCreate(m1, Tail(cs))

\* the chains p.chain of prev, read when clot is built (0: Promise.resolve())
PrevChains(m, cs) == [k \in 1..Len(cs) |-> MapGetOrCreate(m, cs)[cs[k]].chain]

\* prev.forEach(pr => { pr.len++ }): the chain is not moved on to the new task
RECURSIVE LinkTask_nochain(_, _, _)
LinkTask_nochain(m, cs, i) ==
    IF cs = <<>> THEN m
    ELSE LET c == Head(cs)
         IN  LinkTask_nochain([m EXCEPT ![c] = [chain |-> m[c].chain, len |-> m[c].len + 1]],
                              Tail(cs), i)

\* prev.forEach(pr => { pr.len++; pr.chain = task })
RECURSIVE LinkTask(_, _, _)
LinkTask(m, cs, i) ==
    IF cs = <<>> THEN m
    ELSE LET c == Head(cs)
         IN  LinkTask([m EXCEPT ![c] = [chain |-> i, len |-> m[c].len + 1]], Tail(cs), i)

\* cs.forEach(c => { const cl = map.get(c)
\*                   if (cl !== undefined && --cl.len === 0) map.delete(c) })
RECURSIVE Unlink_keep(_, _)
Unlink_keep(m, cs) ==
    IF cs = <<>> THEN m
    ELSE LET c == Head(cs)
             m1 == IF m[c] = NoClot THEN m
                   ELSE [m EXCEPT ![c] = [chain |-> m[c].chain, len |-> m[c].len - 1]]
         IN  Unlink_keep(m1, Tail(cs))

\* cs.forEach over the distinct keys of cs only
RECURSIVE Unlink_distinct(_, _)
Unlink_distinct(m, cs) ==
    IF cs = <<>> THEN m
    ELSE LET c == Head(cs)
             rest == SelectSeq(Tail(cs), LAMBDA d : d # c)
             m1 == IF m[c] = NoClot THEN m
                   ELSE IF m[c].len - 1 = 0 THEN [m EXCEPT ![c] = NoClot]
                   ELSE [m EXCEPT ![c] = [chain |-> m[c].chain, len |-> m[c].len - 1]]
         IN  Unlink_distinct(m1, rest)

RECURSIVE Unlink(_, _)
Unlink(m, cs) ==
    IF cs = <<>> THEN m
    ELSE LET c == Head(cs)
             m1 == IF m[c] = NoClot THEN m
                   ELSE IF m[c].len - 1 = 0 THEN [m EXCEPT ![c] = NoClot]
                   ELSE [m EXCEPT ![c] = [chain |-> m[c].chain, len |-> m[c].len - 1]]
         IN  Unlink(m1, Tail(cs))

\* a task promise has settled (run() has returned or thrown)
TaskSettled(t) == t = 0 \/ itask[t] # Pending

\* p.chain.then(resolve): the wrapper resolves only when the chain fulfils
WrapperResolved_then(t) == t = 0 \/ itask[t] = Ok

\* new Promise(resolve => p.chain.finally(resolve)): the wrapper resolves when
\* the chain has settled, fulfilled or rejected, and it never rejects
WrapperResolved(t) == TaskSettled(t)

\* Promise.all(prev.map(p => p.chain)): clot rejects with the first rejection
ClotOutcome_raw(i) ==
    LET bad == {k \in 1..Len(iprev[i]) : iprev[i][k] # 0 /\ IsErr(itask[iprev[i][k]])}
    IN  IF bad # {} THEN itask[iprev[i][CHOOSE k \in bad : TRUE]]
        ELSE IF \A k \in 1..Len(iprev[i]) : TaskSettled(iprev[i][k]) THEN Ok
        ELSE Pending

\* every key of the map
ClotOutcome_all(i) ==
    IF \A j \in 1..(i - 1) : TaskSettled(j) THEN Ok ELSE Pending

\* clot = Promise.all(prev.map(p => new Promise(resolve => p.chain.finally(resolve))))
ClotOutcome(i) ==
    IF \A k \in 1..Len(iprev[i]) : WrapperResolved(iprev[i][k]) THEN Ok ELSE Pending

SeqMapInit ==
    /\ map = [c \in Keys |-> NoClot]
    /\ ncalled = 0
    /\ ipc = [i \in Invs |-> "new"]
    /\ ics = [i \in Invs |-> <<>>]
    /\ iprev = [i \in Invs |-> <<>>]
    /\ inext = [i \in Invs |-> Pending]
    /\ itask = [i \in Invs |-> Pending]
    /\ ires = [i \in Invs |-> Pending]
    /\ nstarts = [i \in Invs |-> 0]

\* the middleware is invoked: everything up to `await task`
Call(con) ==
    /\ ncalled < NumInv
    /\ LET i == ncalled + 1
           cs == Normalize(con)
       IN  /\ ncalled' = i
           /\ ics' = [ics EXCEPT ![i] = cs]
           /\ iprev' = [iprev EXCEPT ![i] = PrevChains(map, cs)]
           /\ map' = LinkTask(MapGetOrCreate(map, cs), cs, i)
           /\ ipc' = [ipc EXCEPT ![i] = "clot"]
    /\ UNCHANGED <<inext, itask, ires, nstarts>>
    /\ UNCHANGED <<runVars, dequeVars, fetchVars, poolVars>>

\* run() resumes after `await clot` and calls next()
StartNext(i) ==
    /\ ipc[i] = "clot"
    /\ ClotOutcome(i) # Pending
    /\ IF ClotOutcome(i) = Ok
       THEN /\ ipc' = [ipc EXCEPT ![i] = "next"]
            /\ nstarts' = [nstarts EXCEPT ![i] = @ + 1]
            /\ UNCHANGED itask
       ELSE \* `await clot` throws outside the try: run() rejects at once
            /\ ipc' = [ipc EXCEPT ![i] = "task"]
            /\ itask' = [itask EXCEPT ![i] = ClotOutcome(i)]
            /\ UNCHANGED nstarts
    /\ UNCHANGED <<map, ncalled, ics, iprev, inext, ires>>
    /\ UNCHANGED <<runVars, dequeVars, fetchVars, poolVars>>

\* the promise returned by next() fulfils
NextResolves(i) ==
    /\ ipc[i] = "next"
    /\ ipc' = [ipc EXCEPT ![i] = "finally"]
    /\ inext' = [inext EXCEPT ![i] = Ok]
    /\ UNCHANGED <<map, ncalled, ics, iprev, itask, ires, nstarts>>
    /\ UNCHANGED <<runVars, dequeVars, fetchVars, poolVars>>

\* next() throws, or the promise it returned rejects
NextRejects(i) ==
    /\ ipc[i] = "next"
    /\ ipc' = [ipc EXCEPT ![i] = "finally"]
    /\ inext' = [inext EXCEPT ![i] = Err(i)]
    /\ UNCHANGED <<map, ncalled, ics, iprev, itask, ires, nstarts>>
    /\ UNCHANGED <<runVars, dequeVars, fetchVars, poolVars>>

\* run() resumes after `await next()`: the finally block, then run() settles
Finally(i) ==
    /\ ipc[i] = "finally"
    /\ map' = Unlink(map, ics[i])
    /\ itask' = [itask EXCEPT ![i] = inext[i]]
    /\ ipc' = [ipc EXCEPT ![i] = "task"]
    /\ UNCHANGED <<ncalled, ics, iprev, inext, ires, nstarts>>
    /\ UNCHANGED <<runVars, dequeVars, fetchVars, poolVars>>

\* the middleware resumes after `await task` and settles its own promise
Return(i) ==
    /\ ipc[i] = "task"
    /\ ires' = [ires EXCEPT ![i] = itask[i]]
    /\ ipc' = [ipc EXCEPT ![i] = "returned"]
    /\ UNCHANGED <<map, ncalled, ics, iprev, inext, itask, nstarts>>
    /\ UNCHANGED <<runVars, dequeVars, fetchVars, poolVars>>


(***************************************************************************)
(* The runner: createRunner, createSource, createUpdateFetcher and the     *)
(* DecayingDeque of the concurrent sink.                                   *)
(*                                                                         *)
(* Calls between these parts are synchronous, so they are operators on a   *)
(* record s of the whole state; an action applies a chain of them to the   *)
(* current state.                                                          *)
(***************************************************************************)
Infinity == 1000000
Min2(a, b) == IF a < b THEN a ELSE b
Max2(a, b) == IF a > b THEN a ELSE b

Runners == 1..MaxStarts
\* a generator is started by the first next() of a runner loop, and close()
\* keeps one more in reserve
Gens == 1..(MaxStarts + 1)
Limits == 1..MaxLimit
\* the updates: those of the remote service, or those given to add()
Ids == 1..Max2(MaxId, MaxQ)

NoArgs == [offset |-> 0, limit |-> 0]

Cur ==
    [running |-> running, task |-> task, rpc |-> rpc, rgen |-> rgen,
     stopped |-> stopped, lastCmd |-> lastCmd, active |-> active,
     controller |-> controller, aborted |-> aborted,
     updateGenerator |-> updateGenerator, pace |-> pace, endWait |-> endWait,
     gpc |-> gpc, greq |-> greq, gargs |-> gargs, gitems |-> gitems,
     gerr |-> gerr, pacing |-> pacing, offset |-> offset,
     supplyInit |-> supplyInit, limit |-> limit, timeout |-> timeout,
     q |-> q, subs |-> subs, hres |-> hres, hsize |-> hsize, ulog |-> ulog,
     hpos |-> hpos,
     sink |-> sink, hcall |-> hcall]

\* the state after a step is s (evaluated once, as v)
Apply(s) ==
  \E v \in {s} :
    /\ running' = v.running /\ task' = v.task /\ rpc' = v.rpc /\ rgen' = v.rgen
    /\ stopped' = v.stopped /\ lastCmd' = v.lastCmd /\ active' = v.active
    /\ controller' = v.controller /\ aborted' = v.aborted
    /\ updateGenerator' = v.updateGenerator /\ pace' = v.pace
    /\ endWait' = v.endWait /\ gpc' = v.gpc /\ greq' = v.greq
    /\ gargs' = v.gargs /\ gitems' = v.gitems /\ gerr' = v.gerr
    /\ pacing' = v.pacing /\ offset' = v.offset /\ supplyInit' = v.supplyInit
    /\ limit' = v.limit /\ timeout' = v.timeout /\ q' = v.q /\ subs' = v.subs
    /\ hres' = v.hres /\ hsize' = v.hsize /\ ulog' = v.ulog /\ hpos' = v.hpos
    /\ sink' = v.sink /\ hcall' = v.hcall
    /\ UNCHANGED <<seqVars, fetchVars, poolVars>>

(***************************************************************************)
(* DecayingDeque                                                           *)
(***************************************************************************)
\* a node: its update, whether consume or the error handler is running, and
\* the date of the add() call that made it (only the order of dates
\* matters: they are kept as 1, 2, ... from the oldest in the deque, and as
\* 0 when the timeout is Infinity and no timer is ever set)
Node(elem, date) == [elem |-> elem, st |-> "run", date |-> date]

\* what happened to an update's task: st is "new" before add(), "run" while
\* consume runs in the deque, "catch" while the error handler does, "done"
\* once consume resolved, "handled" / "unhandled" once the error handler
\* resolved / failed, "late" once it left the deque timed out and pending,
\* "lateOk" / "lateErr" once it settled after that; with the number
\* of calls of consume, of the error handler and of the timeout handler for
\* it, and the number of times the deque's length was decremented for it;
\* nth tells the how-manieth call of the timeout handler the one for it was,
\* and firing in the how-manieth firing of the timer it was made
NoLog == [st |-> "new", consumed |-> 0, caught |-> 0, timedOut |-> 0, left |-> 0,
          nth |-> 0, firing |-> 0]
Started(l) == [l EXCEPT !.st = "run", !.consumed = @ + 1]
Caught(l) == [l EXCEPT !.st = "catch", !.caught = @ + 1]
TimedOut(l) == [l EXCEPT !.timedOut = @ + 1]
Left(l, st) == [l EXCEPT !.st = st, !.left = @ + 1]
\* the entry of u, and the log with l as the entry of u
LogOf(log, u) == IF u \in DOMAIN log THEN log[u] ELSE NoLog
LogAt(log, u, l) == [v \in DOMAIN log |-> IF v = u THEN l ELSE log[v]]
\* the log after timeoutHandler(u, task): u leaves the deque, its task pending
HandlerCalls(log) == Cardinality({v \in DOMAIN log : log[v].timedOut > 0})
HandleTimeout(log, u) ==
    LogAt(log, u, [Left(TimedOut(LogOf(log, u)), "late") EXCEPT
                      !.nth = HandlerCalls(log) + 1])

\* the state s after a firing of the timer that began with the log `before`:
\* the handler calls of this firing are marked as such
Firings(log) ==
    IF DOMAIN log = {} THEN 0
    ELSE CHOOSE n \in {log[u].firing : u \in DOMAIN log} :
            \A u \in DOMAIN log : log[u].firing <= n
Fired(before, s) ==
    [s EXCEPT !.ulog = [u \in DOMAIN s.ulog |->
                          IF s.ulog[u].timedOut # before[u].timedOut
                          THEN [s.ulog[u] EXCEPT !.firing = Firings(before) + 1]
                          ELSE s.ulog[u]]]

RECURSIVE RenumberFrom(_, _, _)
RenumberFrom(nodes, prevOld, prevNew) ==
    IF nodes = <<>> THEN <<>>
    ELSE LET n == Head(nodes)
             d == IF n.date = prevOld THEN prevNew ELSE prevNew + 1
         IN  <<[n EXCEPT !.date = d]>> \o RenumberFrom(Tail(nodes), n.date, d)

Renumber(nodes) == RenumberFrom(nodes, 0, 0)

\* the promise of an add() call that has not resolved (or was consumed)
Unsettled == -1

\* resolve at capacity 0 too
HasCapacity_zero(capacity) == capacity >= 0

\* if (capacity > 0) resolve(capacity)
HasCapacity(capacity) == capacity > 0

\* the place of the call of c among the waiting calls
Place(waiting, c) == CHOOSE k \in 1..Len(waiting) : waiting[k] = c

\* resolve(capacity) for the call that has waited least, and for no other
Notify_newest(s) ==
    LET capacity == s.limit - Len(s.q)
        c == s.subs[Len(s.subs)]
    IN  IF HasCapacity(capacity) /\ s.subs # <<>>
        THEN [s EXCEPT !.hres[c] = capacity, !.hsize[c] = Len(s.q),
                       !.hpos[c] = Len(s.subs),
                       !.subs = SubSeq(s.subs, 1, Len(s.subs) - 1)]
        ELSE s

\* resolve(capacity) for every waiting add() call, in the order of the calls
Notify(s) ==
    LET capacity == s.limit - Len(s.q)
    IN  IF HasCapacity(capacity) /\ s.subs # <<>>
        THEN [s EXCEPT !.hres = [c \in DOMAIN s.hres |->
                                    IF c \in Range(s.subs) THEN capacity ELSE s.hres[c]],
                       !.hsize = [c \in DOMAIN s.hsize |->
                                    IF c \in Range(s.subs) THEN Len(s.q) ELSE s.hsize[c]],
                       !.hpos = [c \in DOMAIN s.hpos |->
                                    IF c \in Range(s.subs) THEN Place(s.subs, c) ELSE s.hpos[c]],
                       !.subs = <<>>]
        ELSE s

\* pendingTasks() that reads the deque from its newest node
PendingTasks_reversed(nodes) == [k \in 1..Len(nodes) |-> nodes[Len(nodes) + 1 - k].elem]

\* pendingTasks(): the updates of the nodes, oldest first
PendingTasks(nodes) == [k \in 1..Len(nodes) |-> nodes[k].elem]

\* add(elems) called by c: append the nodes and start consume on each; the
\* returned promise resolves now if there is capacity, else c subscribes
Add(s, c, elems) ==
    LET last == IF s.q = <<>> THEN 0 ELSE s.q[Len(s.q)].date
        date == IF s.timeout THEN last + 1 ELSE 0
        q1 == s.q \o [k \in 1..Len(elems) |-> Node(elems[k], date)]
        capacity == s.limit - Len(q1)
        s1 == [s EXCEPT !.q = q1,
                        !.ulog = [u \in DOMAIN s.ulog |->
                                    IF u \in Range(elems) THEN Started(s.ulog[u])
                                    ELSE s.ulog[u]]]
    IN  IF HasCapacity(capacity)
        THEN [s1 EXCEPT !.hres[c] = capacity, !.hsize[c] = Len(q1)]
        ELSE [s1 EXCEPT !.subs = Append(s.subs, c)]

\* the node at index k leaves the deque, and the waiting add() calls are
\* not told
Remove_silent(s, k, st) ==
    [s EXCEPT !.q = Renumber(SubSeq(s.q, 1, k - 1) \o SubSeq(s.q, k + 1, Len(s.q))),
              !.ulog = LogAt(s.ulog, s.q[k].elem, Left(LogOf(s.ulog, s.q[k].elem), st))]

\* the node at index k leaves the deque; waiting add() calls are notified
Remove(s, k, st) ==
    Notify([s EXCEPT !.q = Renumber(SubSeq(s.q, 1, k - 1) \o SubSeq(s.q, k + 1, Len(s.q))),
                     !.ulog = LogAt(s.ulog, s.q[k].elem, Left(LogOf(s.ulog, s.q[k].elem), st))])

\* the timer fires: the nodes dated d or older have reached their deadline;
\* each is handed to the timeout handler and removed, oldest first
\* the timer fires, and the waiting add() calls are not told
RECURSIVE Purge_silent(_, _)
Purge_silent(s, d) ==
    IF s.q # <<>> /\ s.q[1].date <= d
    THEN Purge_silent([s EXCEPT !.q = Tail(s.q),
                                !.ulog = HandleTimeout(s.ulog, s.q[1].elem)], d)
    ELSE [s EXCEPT !.q = Renumber(s.q)]

\* the timer fires, and only the oldest node is looked at
Purge_oldest(s, d) ==
    IF s.q # <<>> /\ s.q[1].date <= d
    THEN LET s1 == Notify([s EXCEPT !.q = Tail(s.q),
                                    !.ulog = HandleTimeout(s.ulog, s.q[1].elem)])
         IN  [s1 EXCEPT !.q = Renumber(s1.q)]
    ELSE [s EXCEPT !.q = Renumber(s.q)]

RECURSIVE Purge(_, _)
Purge(s, d) ==
    IF s.q # <<>> /\ s.q[1].date <= d
    THEN LET s1 == Notify([s EXCEPT !.q = Tail(s.q),
                                    !.ulog = HandleTimeout(s.ulog, s.q[1].elem)])
         IN  Purge(s1, d)
    ELSE [s EXCEPT !.q = Renumber(s.q)]

(***************************************************************************)
(* createSequentialSink, createBatchSink                                   *)
(***************************************************************************)
\* new DecayingDeque(timeout, handler.consume, false, ...): with a concurrency
\* of false, add() resolves only when the deque is empty, as a limit of 1
NoConcurrency == 1

Adding(updates, i) == [pc |-> "adding", batch |-> updates, i |-> i, res |-> Unsettled]

\* handle() resolves with Infinity
ReturnInfinity(s, c) ==
    [s EXCEPT !.hres[c] = Unsettled, !.hsize[c] = 0, !.hpos[c] = 0,
              !.hcall[c].pc = "resolved", !.hcall[c].res = Infinity]

\* for (let i = 0; i < len; i++) await q.add([updates[i]]); return Infinity:
\* one turn of the loop, up to its await, or the return
SequentialStep(s, c) ==
    LET h == s.hcall[c]
    IN  IF h.i < Len(h.batch)
        THEN Add([s EXCEPT !.hres[c] = Unsettled, !.hsize[c] = 0, !.hpos[c] = 0, !.hcall[c].i = h.i + 1],
                 c, <<h.batch[h.i + 1]>>)
        ELSE ReturnInfinity(s, c)

\* a sequential handle(updates) that gives all updates to add() at once
SequentialHandle_atOnce(s, c, updates) ==
    Add([s EXCEPT !.hcall[c] = Adding(updates, Len(updates))], c, updates)

\* createSequentialSink: handle(updates), up to its first await
SequentialHandle(s, c, updates) ==
    SequentialStep([s EXCEPT !.hcall[c] = Adding(updates, 0)], c)

\* a batch handle(updates) that does not wait for add()
BatchHandle_noWait(s, c, updates) ==
    LET s1 == Add([s EXCEPT !.hcall[c] = Adding(updates, Len(updates))], c, updates)
    IN  ReturnInfinity([s1 EXCEPT !.subs = SelectSeq(s1.subs, LAMBDA d : d # c)], c)

\* createBatchSink: handle(updates) is q.add(updates).then(constInf)
BatchHandle(s, c, updates) ==
    Add([s EXCEPT !.hcall[c] = Adding(updates, Len(updates))], c, updates)

(***************************************************************************)
(* createUpdateFetcher                                                     *)
(***************************************************************************)
\* limit: Math.max(1, Math.min(batchSize, 100))
MaxBatch == 100
\* a limit with no upper end
Limit_uncapped(batchSize) == Max2(1, batchSize)
Limit(batchSize) == Max2(1, Min2(batchSize, MaxBatch))

\* fetchUpdates(batchSize, signal) up to its first getUpdates call
FetchUpdates(s, g, batchSize) ==
    [s EXCEPT !.gargs[g] = [offset |-> s.offset, limit |-> Limit(batchSize)],
              !.gpc[g] = "call"]

\* what the remote service answers to getUpdates(offset, limit): k updates in
\* ascending order, none below the offset
Answer(args, k) == [n \in 1..k |-> Max2(args.offset, 1) + n - 1]

\* an offset taken from the first update of the batch
OffsetAfter_first(off, updates) ==
    IF updates = <<>> THEN off ELSE updates[1] + 1

\* the offset after a batch: one past the last update_id
OffsetAfter(off, updates) ==
    IF updates = <<>> THEN off ELSE updates[Len(updates)] + 1

\* after a getUpdates error that is not rethrown: sleep for retryIn, or give
\* up when Date.now() + retryIn >= latestRetry
RetryOrThrow(s, g, e, retry) ==
    IF retry THEN [s EXCEPT !.gpc[g] = "sleep", !.gerr[g] = e]
    ELSE [s EXCEPT !.gpc[g] = "failed", !.gerr[g] = e, !.lastCmd = "fatal"]

\* a catch block that retries after every error of a signal not aborted
FetchCatch_retryAll(s, g, e, retry) ==
    IF s.aborted[g]
    THEN [s EXCEPT !.gpc[g] = "failed", !.gerr[g] = e,
                   !.lastCmd = IF e = "abort" THEN @ ELSE "fatal"]
    ELSE IF e = "e429" THEN [s EXCEPT !.gpc[g] = "sleep429", !.gerr[g] = e]
    ELSE RetryOrThrow(s, g, e, retry)

\* the catch block of fetchUpdates; e is "net", "fatal" (401, 409), "e429"
\* (429 with retry_after) or "abort"
FetchCatch(s, g, e, retry) ==
    IF s.aborted[g]
    THEN \* do not retry if stopped
         [s EXCEPT !.gpc[g] = "failed", !.gerr[g] = e,
                   !.lastCmd = IF e = "abort" THEN @ ELSE "fatal"]
    ELSE IF e = "fatal"
    THEN [s EXCEPT !.gpc[g] = "failed", !.gerr[g] = e, !.lastCmd = "fatal"]
    ELSE IF e = "e429" THEN [s EXCEPT !.gpc[g] = "sleep429", !.gerr[g] = e]
    ELSE RetryOrThrow(s, g, e, retry)

\* Time is counted in units of 100 ms.  retryInterval is "exponential",
\* "quadratic" or a number (kind "number", with the number as ms);
\* initialRetryIn is 100 ms unless it is a number
Exponential == [kind |-> "exponential", ms |-> 0]
Quadratic == [kind |-> "quadratic", ms |-> 0]
InitialRetry == 1
InitialRetryIn(retryInterval) ==
    IF retryInterval.kind = "number" THEN retryInterval.ms ELSE InitialRetry

\* backoff: t + t, t + 100, or t
QuadraticStep == 1
Backoff(retryInterval, t) ==
    IF retryInterval.kind = "exponential" THEN t + t
    ELSE IF retryInterval.kind = "quadratic" THEN t + QuadraticStep
    ELSE t

\* no fetchUpdates call is in progress
NoFetch(maxRetryTime, retryInterval) ==
    [pc |-> "idle", maxRetryTime |-> maxRetryTime, retryInterval |-> retryInterval,
     now |-> 0, began |-> 0, latestRetry |-> 0, retryIn |-> 0, aborted |-> FALSE,
     updates |-> <<>>, error |-> "", nthrown |-> 0, why |-> "",
     batchSize |-> 0, args |-> NoArgs]

\* no clock is kept
Untimed == NoFetch(0, Exponential)

\* fetchUpdates(batchSize, signal) up to its first getUpdates call, with the
\* clock: const latestRetry = Date.now() + maxRetryTime; let retryIn = initialRetryIn
TimedFetch(f, off, batchSize) ==
    [f EXCEPT !.pc = "call", !.began = f.now, !.latestRetry = f.now + f.maxRetryTime,
              !.retryIn = InitialRetryIn(f.retryInterval),
              !.batchSize = batchSize,
              !.args = [offset |-> off, limit |-> Limit(batchSize)]]

\* throw error, for the reason why
Throw(f, e, why) ==
    [f EXCEPT !.pc = "threw", !.error = e, !.nthrown = @ + 1, !.why = why]

\* a test that looks one backoff ahead
MayRetry_ahead(f) == f.now + Backoff(f.retryInterval, f.retryIn) < f.latestRetry

\* if (Date.now() + retryIn < latestRetry)
MayRetry(f) == f.now + f.retryIn < f.latestRetry

\* the backoff sleep, or the throw that gives up
TimedRetryOrThrow(f, e) ==
    IF MayRetry(f) THEN [f EXCEPT !.pc = "sleep", !.error = e]
    ELSE Throw(f, e, "gaveUp")

\* a catch block that looks at the error code before it looks at the signal
TimedCatch_codeFirst(f, e) ==
    IF e = "fatal" THEN Throw(f, e, "unrecoverable")
    ELSE IF e = "e429" THEN [f EXCEPT !.pc = "sleep429", !.error = e]
    ELSE IF f.aborted THEN Throw(f, e, "aborted")
    ELSE TimedRetryOrThrow(f, e)

\* the catch block of fetchUpdates, at Date.now() = f.now
TimedCatch(f, e) ==
    IF f.aborted THEN Throw(f, e, "aborted")
    ELSE IF e = "fatal" THEN Throw(f, e, "unrecoverable")
    ELSE IF e = "e429" THEN [f EXCEPT !.pc = "sleep429", !.error = e]
    ELSE TimedRetryOrThrow(f, e)

\* the backoff sleep is over after dt: retryIn = backoff(retryIn), and the
\* do-while calls getUpdates again
TimedSlept(f, dt) ==
    [f EXCEPT !.pc = "call", !.now = @ + dt, !.error = "",
              !.retryIn = Backoff(f.retryInterval, f.retryIn)]

(***************************************************************************)
(* createSource                                                            *)
(***************************************************************************)
\* deactivate(): active = false; clearTimeout(waitHandle); endWait()
\* (endWait is 0 once its promise is resolved: calling it again does nothing)
Deactivate(s) ==
    [s EXCEPT !.active = FALSE, !.endWait = 0,
              !.gpc = IF s.endWait # 0
                      THEN [s.gpc EXCEPT ![s.endWait] = "waitDone"] ELSE s.gpc]

\* `updateGenerator = worker()`: a generator that was never started is as
\* good as a new one, so one that was started is replaced by the next unused
FreshGen(s) ==
    IF s.gpc[s.updateGenerator] = "start" THEN s.updateGenerator
    ELSE CHOOSE g \in Gens : s.gpc[g] = "none" /\ \A h \in Gens : s.gpc[h] = "none" => g <= h

\* close(): deactivate(); controller.abort() (whose listener is deactivate);
\* updateGenerator = worker(); pace = Infinity
Close(s) ==
    LET s1 == Deactivate(s)
        s2 == Deactivate([s1 EXCEPT !.aborted[s.controller] = TRUE])
        g == FreshGen(s2)
    IN  [s2 EXCEPT !.updateGenerator = g, !.gpc[g] = "start", !.pace = Infinity]

\* the generator has completed (e = "") or thrown e: the request it was
\* serving gets that outcome, every queued request gets {done: true}; a
\* runner() whose request is answered continues in a later action
GenFinish(s, g, e) ==
    LET reqs == s.greq[g]
        rs == {reqs[k].r : k \in 1..Len(reqs)}
    IN  [s EXCEPT !.gpc[g] = "done", !.greq[g] = <<>>,
                  !.gargs[g] = NoArgs, !.gitems[g] = <<>>, !.gerr[g] = "",
                  !.rpc = [r \in Runners |->
                             IF reqs # <<>> /\ r = reqs[1].r /\ e # "" THEN "threw"
                             ELSE IF r \in rs THEN "ending"
                             ELSE s.rpc[r]]]

\* supplier.supply(pace, signal) as run() defines it: bot.init() first, until
\* a fetch has succeeded
Supply(s, g) ==
    IF s.supplyInit
    THEN [s EXCEPT !.gpc[g] = "init", !.gargs[g] = [offset |-> 0, limit |-> s.pace]]
    ELSE FetchUpdates(s, g, s.pace)

\* one round of the do-while: a new controller, then the supply call
LoopIter(s, g) ==
    Supply([s EXCEPT !.controller = g, !.aborted[g] = FALSE], g)

\* } while (active)
WhileActive(s, g) == IF s.active THEN LoopIter(s, g) ELSE GenFinish(s, g, "")

\* items.length < 100
FullBatch == 100

\* worker() after `yield items`: record(), then the pacing wait
AfterYield(s, g, wait) ==
    IF wait /\ s.pacing /\ Len(s.gitems[g]) < FullBatch
    THEN [s EXCEPT !.gpc[g] = "wait", !.endWait = g]
    ELSE WhileActive(s, g)

\* the generator, suspended at its yield, takes the request at the head of
\* its queue: return() completes it, next() lets it run on
ResumeYield(s, g, wait) ==
    IF s.greq[g][1].k = "return" THEN GenFinish(s, g, "") ELSE AfterYield(s, g, wait)

\* runner r calls next() or return() on generator g
GenRequest(s, g, r, kind, wait) ==
    LET s1 == [s EXCEPT !.greq[g] = Append(@, [r |-> r, k |-> kind])]
    IN  CASE s.gpc[g] = "start" ->
                IF kind = "next" THEN LoopIter([s1 EXCEPT !.active = TRUE], g)
                ELSE GenFinish(s1, g, "")
          [] s.gpc[g] = "yield" -> ResumeYield(s1, g, wait)
          [] s.gpc[g] = "done" -> GenFinish(s1, g, "")
          [] OTHER -> s1

(***************************************************************************)
(* createRunner                                                            *)
(***************************************************************************)
\* the body of the for-await: capacity = await sink.handle(updates)
Handle(s, r, updates) ==
    Add([s EXCEPT !.rpc[r] = "handle"], r, updates)

\* a worker() that yields the batch only while the source is active
Yield_whileActive(s, g, wait) ==
    LET r == s.greq[g][1].r
        s1 == Handle([s EXCEPT !.greq[g] = Tail(@), !.gpc[g] = "yield"],
                     r, s.gitems[g])
    IN  IF ~s.active THEN GenFinish(s, g, "")
        ELSE IF s1.greq[g] = <<>> THEN s1 ELSE ResumeYield(s1, g, wait)

\* `yield items`: the request at the head of the queue is answered with the
\* batch, and its runner handles it; the generator stays suspended unless
\* another request is queued
Yield(s, g, wait) ==
    LET r == s.greq[g][1].r
        s1 == Handle([s EXCEPT !.greq[g] = Tail(@), !.gpc[g] = "yield"],
                     r, s.gitems[g])
    IN  IF s1.greq[g] = <<>> THEN s1 ELSE ResumeYield(s1, g, wait)

\* if (!running) break; source.setGeneratorPace(capacity); and the next
\* round of the for-await
AfterHandle(s, r, capacity, wait) ==
    IF ~s.running
    THEN GenRequest([s EXCEPT !.rpc[r] = "return"], s.rgen[r], r, "return", wait)
    ELSE GenRequest([s EXCEPT !.pace = capacity, !.rpc[r] = "next"],
                    s.rgen[r], r, "next", wait)

\* runner() leaves the for-await: normally, or through its catch block
RunnerExit(s, r) ==
    IF s.rpc[r] = "threw" /\ s.running
    THEN [s EXCEPT !.running = FALSE, !.task = 0, !.rpc[r] = "rejected", !.rgen[r] = 0]
    ELSE [s EXCEPT !.running = FALSE, !.task = 0, !.rpc[r] = "resolved", !.rgen[r] = 0]

\* start() that sets the flags but does not begin to iterate the source
StartRunner_noIterate(s, r, wait) ==
    [s EXCEPT !.running = TRUE, !.task = r, !.rgen[r] = s.updateGenerator,
              !.rpc[r] = "next", !.lastCmd = "start"]

\* start(): running = true; task = runner()
StartRunner(s, r, wait) ==
    LET g == s.updateGenerator
        s1 == [s EXCEPT !.running = TRUE, !.task = r, !.rgen[r] = g, !.rpc[r] = "next",
                        !.lastCmd = IF s.lastCmd = "fatal" THEN "fatal"
                                   ELSE IF s.stopped # {} THEN "restart" ELSE "start"]
    IN  GenRequest(s1, g, r, "next", wait)

\* stop(): running = false; task = undefined; source.close(); return t
\* (close() throws on `controller.abort()` when no generator ever ran)
StopRunner(s) ==
    LET s1 == [s EXCEPT !.running = FALSE, !.task = 0,
                        !.lastCmd = IF @ = "fatal" THEN "fatal" ELSE "stop",
                        !.stopped = IF s.task = 0 THEN @ ELSE @ \cup {s.task}]
    IN  IF s.controller = 0 THEN Deactivate(s1) ELSE Close(s1)

\* isRunning()
IsRunning == running /\ active

(***************************************************************************)
(* Initial states                                                          *)
(***************************************************************************)
\* createRunner(createSource(supplier), sink), before start()
RunnerCreated ==
    /\ running = FALSE /\ task = 0
    /\ rpc = [r \in Runners |-> "unborn"]
    /\ rgen = [r \in Runners |-> 0]
    /\ stopped = {} /\ lastCmd = "none"
    /\ active = FALSE /\ controller = 0
    /\ aborted = [g \in Gens |-> FALSE]
    /\ updateGenerator = 1
    /\ pace = Infinity /\ endWait = 0
    /\ gpc = [g \in Gens |-> IF g = 1 THEN "start" ELSE "none"]
    /\ greq = [g \in Gens |-> <<>>]
    /\ gargs = [g \in Gens |-> NoArgs]
    /\ gitems = [g \in Gens |-> <<>>]
    /\ gerr = [g \in Gens |-> ""]
    /\ offset = 0

\* no handle() call: pc is "idle"; else the batch it was given, the number
\* i of its updates given to add() so far, and pc is "adding" while it awaits
\* add(), "resolved" once its promise resolved, with res
NoCall == [pc |-> "idle", batch |-> <<>>, i |-> 0, res |-> Unsettled]

\* new DecayingDeque(timeout, consume, limit, errorHandler, timeoutHandler)
DequeCreated ==
    /\ q = <<>> /\ subs = <<>>
    /\ hres = [c \in Runners |-> Unsettled]
    /\ hsize = [c \in Runners |-> 0]
    /\ hpos = [c \in Runners |-> 0]
    /\ hcall = [c \in Runners |-> NoCall]

(***************************************************************************)
(* Actions of the runner                                                   *)
(***************************************************************************)
\* start() is called on a handle that is not running
Start(wait) ==
    /\ ~running
    /\ \E r \in Runners : rpc[r] = "unborn"
    /\ LET r == CHOOSE x \in Runners : rpc[x] = "unborn" /\ \A y \in Runners : rpc[y] = "unborn" => x <= y
       IN  Apply(StartRunner(Cur, r, wait))

\* stop() is called on a handle that is running
Stop ==
    /\ running
    /\ Apply(StopRunner(Cur))

\* bot.init() resolves: fetchUpdates(batchSize, signal) is called
InitResolves(g) ==
    /\ gpc[g] = "init"
    /\ Apply(FetchUpdates(Cur, g, gargs[g].limit))

\* bot.init() rejects: so does supply
InitRejects(g) ==
    /\ gpc[g] = "init"
    /\ Apply([Cur EXCEPT !.gpc[g] = "failed", !.gerr[g] = "init",
                         !.lastCmd = "fatal"])

\* getUpdates resolves with k updates (it honours its signal: it does not
\* resolve once the signal is raised); fetchUpdates moves the offset and
\* returns them, and the wrapper installs fetchUpdates as supply
GetUpdatesResolves(g, k) ==
    /\ gpc[g] = "call"
    /\ ~aborted[g]
    /\ k <= Min2(gargs[g].limit, RemoteMax)
    /\ Max2(gargs[g].offset, 1) + k - 1 <= MaxId
    /\ LET updates == Answer(gargs[g], k)
       IN  Apply([Cur EXCEPT !.offset = OffsetAfter(offset, updates),
                             !.supplyInit = FALSE,
                             !.gitems[g] = updates, !.gargs[g] = NoArgs,
                             !.gpc[g] = "supplied"])

\* getUpdates resolves although its signal is raised (the answer had arrived
\* when stop() was called): fetchUpdates moves the offset and returns the
\* updates as ever; the arguments of the call stay on record
GetUpdatesResolvesLate(g, k) ==
    /\ gpc[g] = "call"
    /\ aborted[g]
    /\ k <= Min2(gargs[g].limit, RemoteMax)
    /\ Max2(gargs[g].offset, 1) + k - 1 <= MaxId
    /\ LET updates == Answer(gargs[g], k)
       IN  Apply([Cur EXCEPT !.offset = OffsetAfter(offset, updates),
                             !.supplyInit = FALSE,
                             !.gitems[g] = updates,
                             !.gpc[g] = "supplied"])

\* getUpdates rejects
GetUpdatesRejects(g, e, retry) ==
    /\ gpc[g] = "call"
    /\ e = "abort" => aborted[g]
    /\ Apply(FetchCatch(Cur, g, e, retry))

\* the retry_after sleep of throwIfUnrecoverable is over
Sleep429Done(g, retry) ==
    /\ gpc[g] = "sleep429"
    /\ Apply(RetryOrThrow(Cur, g, gerr[g], retry))

\* the backoff sleep is over: the do-while calls getUpdates again
SleepDone(g) ==
    /\ gpc[g] = "sleep"
    /\ Apply([Cur EXCEPT !.gpc[g] = "call", !.gerr[g] = ""])

\* worker() resumes with the batch of supply and yields it
GenAfterSupply(g, wait) ==
    /\ gpc[g] = "supplied"
    /\ Apply(Yield(Cur, g, wait))

\* worker() resumes in its catch block:
\* close(); if (!controller.signal.aborted) throw e; break
GenCatch(g) ==
    /\ gpc[g] = "failed"
    /\ LET s1 == Close(Cur)
       IN  Apply(GenFinish(s1, g, IF s1.aborted[s1.controller] THEN "" ELSE gerr[g]))

\* the timer of a pacing wait fires
WaitTimer(g) ==
    /\ gpc[g] = "wait"
    /\ Apply([Cur EXCEPT !.gpc[g] = "waitDone",
                         !.endWait = IF endWait = g THEN 0 ELSE @])

\* worker() resumes after the pacing wait
GenAfterWait(g) ==
    /\ gpc[g] = "waitDone"
    /\ Apply(WhileActive(Cur, g))

\* runner() resumes after `await sink.handle(updates)`
RunnerAfterHandle(r, wait) ==
    /\ rpc[r] = "handle"
    /\ hres[r] # Unsettled
    /\ Apply(AfterHandle([Cur EXCEPT !.hres[r] = Unsettled, !.hsize[r] = 0, !.hpos[r] = 0], r, hres[r], wait))

\* runner() resumes after the for-await has ended
RunnerEnd(r) ==
    /\ rpc[r] \in {"ending", "threw"}
    /\ Apply(RunnerExit(Cur, r))

(***************************************************************************)
(* Actions of the deque                                                    *)
(***************************************************************************)
\* consume(update) resolves
TaskResolves(k) ==
    /\ k \in 1..Len(q) /\ q[k].st = "run"
    /\ Apply(Remove(Cur, k, "done"))

\* consume(update) rejects: the error handler is called
TaskRejects(k) ==
    /\ k \in 1..Len(q) /\ q[k].st = "run"
    /\ Apply([Cur EXCEPT !.q[k].st = "catch", !.ulog = LogAt(ulog, q[k].elem, Caught(LogOf(ulog, q[k].elem)))])

\* the error handler has settled, and the node is removed only if it resolved
ErrorHandled_okOnly(k, ok) ==
    /\ k \in 1..Len(q) /\ q[k].st = "catch"
    /\ IF ok THEN Apply(Remove(Cur, k, "handled"))
       ELSE Apply([Cur EXCEPT !.ulog = LogAt(ulog, q[k].elem,
                                 [LogOf(ulog, q[k].elem) EXCEPT !.st = "unhandled"])])

\* the error handler has settled: it resolved (ok), or it failed itself
ErrorHandled(k, ok) ==
    /\ k \in 1..Len(q) /\ q[k].st = "catch"
    /\ Apply(Remove(Cur, k, IF ok THEN "handled" ELSE "unhandled"))

\* the task of an update that timed out rejects, and the error handler is
\* called with the error
LateSettles_caught(u, ok) ==
    /\ u \in DOMAIN ulog /\ ulog[u].st = "late"
    /\ Apply([Cur EXCEPT !.ulog = LogAt(ulog, u,
                 IF ok THEN [ulog[u] EXCEPT !.st = "lateOk"]
                 ELSE [Caught(ulog[u]) EXCEPT !.st = "lateErr"])])

\* the task of an update that timed out settles, and a node is removed for
\* it once more
LateSettles_removed(u, ok) ==
    /\ u \in DOMAIN ulog /\ ulog[u].st = "late"
    /\ Apply([Cur EXCEPT !.q = IF q = <<>> THEN q ELSE Renumber(Tail(q)),
                         !.ulog = LogAt(ulog, u,
                                     Left(ulog[u], IF ok THEN "lateOk" ELSE "lateErr"))])

\* the task of an update that timed out settles: only the promise that was
\* given to the timeout handler tells
LateSettles(u, ok) ==
    /\ u \in DOMAIN ulog /\ ulog[u].st = "late"
    /\ Apply([Cur EXCEPT !.ulog[u].st = IF ok THEN "lateOk" ELSE "lateErr"])

\* the timeout timer fires for the nodes dated d or older
Timeout(d) ==
    /\ timeout
    /\ q # <<>> /\ d \in 1..q[Len(q)].date
    /\ Apply(Fired(ulog, Purge(Cur, d)))

\* the next n updates that were not given to add() yet
NextUpdates(n) ==
    LET given == {u \in DOMAIN ulog : ulog[u].st # "new"}
                 \cup UNION {Range(hcall[c].batch) : c \in Runners}
    IN  [k \in 1..n |-> Cardinality(given) + k]

\* add(elems) is called from outside the runner, as caller c, with n updates
AddCall(c, n) ==
    /\ rpc[c] = "unborn" /\ hres[c] = Unsettled /\ c \notin Range(subs)
    /\ Range(NextUpdates(n)) \subseteq 1..MaxQ
    /\ Apply(Add(Cur, c, NextUpdates(n)))

\* the deque of the test `should complete the add call as soon as there is
\* capacity again`: a limit of 3, and one add() of six updates
ScenarioLimit == 3
ScenarioBatch == 6

\* q.add([...'abcdef']) on the empty deque
AddBatch(c) ==
    /\ rpc[c] = "unborn" /\ hres[c] = Unsettled /\ c \notin Range(subs)
    /\ q = <<>>
    /\ Apply(Add(Cur, c, [k \in 1..ScenarioBatch |-> k]))

\* the caller's `await q.add(elems)` continues
AddContinues(c) ==
    /\ rpc[c] = "unborn" /\ hres[c] # Unsettled
    /\ Apply([Cur EXCEPT !.hres[c] = Unsettled, !.hsize[c] = 0, !.hpos[c] = 0])

(***************************************************************************)
(* Actions of the sequential sink and of the batch sink                    *)
(***************************************************************************)
\* sink.handle(updates) is called from outside the runner, as caller c, with
\* n updates
HandleCall(c, n) ==
    /\ sink # "concurrent"
    /\ rpc[c] = "unborn" /\ hcall[c].pc = "idle"
    /\ Range(NextUpdates(n)) \subseteq 1..MaxQ
    /\ Apply(IF sink = "sequential" THEN SequentialHandle(Cur, c, NextUpdates(n))
             ELSE BatchHandle(Cur, c, NextUpdates(n)))

\* the promise of q.add has resolved: the loop of the sequential handle()
\* goes on, the batch handle() runs constInf
HandleContinues(c) ==
    /\ hcall[c].pc = "adding" /\ hres[c] # Unsettled
    /\ Apply(IF sink = "sequential" THEN SequentialStep(Cur, c)
             ELSE ReturnInfinity(Cur, c))

\* the caller's `await sink.handle(updates)` continues
HandleReturns(c) ==
    /\ hcall[c].pc = "resolved"
    /\ Apply([Cur EXCEPT !.hcall[c] = NoCall])

(***************************************************************************)
(* Actions of one fetchUpdates call with its clock                         *)
(***************************************************************************)
\* fetchUpdates(batchSize, signal) is called
TimedCall(batchSize) ==
    /\ fetch.pc = "idle"
    /\ fetch' = TimedFetch(fetch, offset, batchSize)
    /\ UNCHANGED <<seqVars, runVars, dequeVars, poolVars>>

\* getUpdates resolves after dt with the updates
TimedResolves(dt, updates) ==
    /\ fetch.pc = "call" /\ fetch.now + dt <= MaxNow
    /\ fetch' = [fetch EXCEPT !.pc = "returned", !.now = @ + dt, !.updates = updates]
    /\ offset' = OffsetAfter(offset, updates)
    /\ UNCHANGED <<seqVars, loopVars, dequeVars, poolVars>>

\* getUpdates rejects after dt with e
TimedRejects(dt, e) ==
    /\ fetch.pc = "call" /\ fetch.now + dt <= MaxNow
    /\ e = "abort" => fetch.aborted
    /\ fetch' = TimedCatch([fetch EXCEPT !.now = @ + dt], e)
    /\ UNCHANGED <<seqVars, runVars, dequeVars, poolVars>>

\* the retry_after sleep of throwIfUnrecoverable is over after delay
Timed429Done(delay) ==
    /\ fetch.pc = "sleep429" /\ fetch.now + delay <= MaxNow
    /\ fetch' = TimedRetryOrThrow([fetch EXCEPT !.now = @ + delay], fetch.error)
    /\ UNCHANGED <<seqVars, runVars, dequeVars, poolVars>>

\* the backoff timer fires, late by `late`
TimedSleepDone(late) ==
    /\ fetch.pc = "sleep" /\ fetch.now + fetch.retryIn + late <= MaxNow
    /\ fetch' = TimedSlept(fetch, fetch.retryIn + late)
    /\ UNCHANGED <<seqVars, runVars, dequeVars, poolVars>>

\* the signal is aborted during the call
TimedAbort ==
    /\ fetch.pc \in {"call", "sleep", "sleep429"} /\ ~fetch.aborted
    /\ fetch' = [fetch EXCEPT !.aborted = TRUE]
    /\ UNCHANGED <<seqVars, runVars, dequeVars, poolVars>>

\* the caller has the outcome; the next call comes with a fresh signal
TimedTaken ==
    /\ fetch.pc \in {"returned", "threw"}
    /\ fetch' = [NoFetch(fetch.maxRetryTime, fetch.retryInterval) EXCEPT !.now = fetch.now]
    /\ UNCHANGED <<seqVars, runVars, dequeVars, poolVars>>

(***************************************************************************)
(* distribute(): ThreadPool / UpdateThread                                 *)
(***************************************************************************)
\* `count = 4` in the constructor
DefaultCount == 4

\* the % of JavaScript: the remainder has the sign of the dividend
Remainder_oneBased(a, n) == (a - 1) % n
Remainder(a, n) == IF a >= 0 THEN a % n ELSE 0 - ((0 - a) % n)

\* the indices of this.threads
Threads(count) == 0..(count - 1)

\* `me`, the seed that createThread posts to the worker: messages are
\* numbers in the model, the seed is 0 and the updates are their update_ids
Me == 0

\* no seed has resolved the promise p.seed of the worker
NoSeed == 0 - 1

\* a BotWorker in its thread: onmessage is still the first handler set by
\* parentThread().onMessage (seeded = FALSE) or the second, p.seed is
\* resolved with seed, and jobs are the calls of the update callback in the
\* order they were made: pc is "handle" while handleUpdate is unsettled,
\* "posted" after postMessage(update_id), "threw" when handleUpdate rejected
BotWorker == [seeded |-> FALSE, seed |-> NoSeed, jobs |-> <<>>]

\* new ThreadPool(specifier, me, count): options is <<>> or <<count>>;
\* createThread posts the seed to each worker
ThreadPool(options) ==
    LET count == IF options = <<>> THEN DefaultCount ELSE options[1]
    IN [count |-> count,
        inbox |-> [i \in Threads(count) |-> <<Me>>],
        outbox |-> [i \in Threads(count) |-> <<>>],
        worker |-> [i \in Threads(count) |-> BotWorker],
        tasks |-> [u \in 1..MaxUpdateId |-> 0],
        calls |-> <<>>]

\* no pool: distribute() is not used
NoPool ==
    [count |-> 0, inbox |-> <<>>, outbox |-> <<>>, worker |-> <<>>,
     tasks |-> <<>>, calls |-> <<>>]

\* process(update), up to its await: call number c posts the update to
\* threads[i] and sets its resolver in tasks; replaced tells whether
\* tasks.set() has replaced the resolver of another call
Process(p, update_id) ==
    LET i == Remainder(update_id, p.count)
        c == Len(p.calls) + 1
    IN [p EXCEPT !.inbox[i] = Append(@, update_id),
                 !.tasks[update_id] = c,
                 !.calls = Append(@, [update_id |-> update_id, thread |-> i,
                                      pc |-> "await",
                                      replaced |-> p.tasks[update_id] # 0])]

\* the onMessage callback of the constructor: the task of update_id, if
\* any, is called and deleted
OnMessage_silent(p, update_id) == [p EXCEPT !.tasks[update_id] = 0]
OnMessage_keep(p, update_id) ==
    LET resolve == p.tasks[update_id]
    IN [p EXCEPT !.calls = IF resolve = 0 THEN @
                           ELSE [@ EXCEPT ![resolve].pc = "resolved"]]
OnMessage(p, update_id) ==
    LET resolve == p.tasks[update_id]
    IN [p EXCEPT !.tasks[update_id] = 0,
                 !.calls = IF resolve = 0 THEN @
                           ELSE [@ EXCEPT ![resolve].pc = "resolved"]]

\* the middleware returned by distribute() is called with an update
ProcessCall(update_id) ==
    /\ pool # NoPool /\ Len(pool.calls) < MaxCalls
    /\ pool' = Process(pool, update_id)
    /\ UNCHANGED <<seqVars, runVars, dequeVars, fetchVars>>

\* self.onmessage of the worker is called with the message m: the first
\* handler resolves p.seed and sets the second, which calls the callback
\* given to p.onMessage, and that begins handleUpdate(update)
OnParentMessage_noSeed(w, m) ==
    [w EXCEPT !.jobs = Append(@, [update_id |-> m, pc |-> "handle"])]
OnParentMessage(w, m) ==
    IF ~w.seeded
    THEN [w EXCEPT !.seeded = TRUE, !.seed = m]
    ELSE [w EXCEPT !.jobs = Append(@, [update_id |-> m, pc |-> "handle"])]

\* the oldest message of the parent is delivered to worker i
WorkerReceives(i) ==
    /\ pool # NoPool /\ i \in Threads(pool.count) /\ pool.inbox[i] # <<>>
    /\ pool' = [pool EXCEPT !.inbox[i] = Tail(@),
                            !.worker[i] = OnParentMessage(@, Head(pool.inbox[i]))]
    /\ UNCHANGED <<seqVars, runVars, dequeVars, fetchVars>>

\* `await this.handleUpdate(update); p.postMessage(update.update_id)` for
\* the k-th update of worker i: when handleUpdate resolves (ok) the
\* update_id is posted, and when it rejects the callback rejects with it
HandleUpdateSettles(i, k, ok) ==
    /\ pool # NoPool /\ i \in Threads(pool.count)
    /\ k \in DOMAIN pool.worker[i].jobs /\ pool.worker[i].jobs[k].pc = "handle"
    /\ pool' = IF ok
               THEN [pool EXCEPT !.worker[i].jobs[k].pc = "posted",
                                 !.outbox[i] = Append(@, pool.worker[i].jobs[k].update_id)]
               ELSE [pool EXCEPT !.worker[i].jobs[k].pc = "threw"]
    /\ UNCHANGED <<seqVars, runVars, dequeVars, fetchVars>>

\* the message of thread i arrives in the parent
MessageArrives(i) ==
    /\ pool # NoPool /\ i \in Threads(pool.count) /\ pool.outbox[i] # <<>>
    /\ pool' = OnMessage([pool EXCEPT !.outbox[i] = Tail(@)], Head(pool.outbox[i]))
    /\ UNCHANGED <<seqVars, runVars, dequeVars, fetchVars>>

(***************************************************************************)
(* Specifications                                                          *)
(***************************************************************************)
\* sequentialize() on its own: a runner is created and never started
SeqInit ==
    /\ SeqMapInit /\ RunnerCreated /\ DequeCreated /\ fetch = Untimed /\ pool = NoPool
    /\ sink = "concurrent" /\ ulog = <<>>
    /\ limit = 1 /\ timeout = FALSE /\ pacing = FALSE /\ supplyInit = FALSE

SeqNext ==
    \/ \E con \in Constraints : Call(con)
    \/ \E i \in Invs : StartNext(i)
    \/ \E i \in Invs : NextResolves(i)
    \/ \E i \in Invs : NextRejects(i)
    \/ \E i \in Invs : Finally(i)
    \/ \E i \in Invs : Return(i)

SeqSpec == SeqInit /\ [][SeqNext]_vars

\* every next() that was called settles, and every continuation runs
SeqFairSpec ==
    /\ SeqSpec
    /\ \A i \in Invs : /\ WF_vars(StartNext(i))
                       /\ WF_vars(NextResolves(i) \/ NextRejects(i))
                       /\ WF_vars(Finally(i))
                       /\ WF_vars(Return(i))

\* run(bot, options) with sink concurrency `limit`: the bot has an init(),
\* the source paces (speedTrafficBalance > 0, so that record() may return a
\* wait or 0), the handler of the bot resolves, and the sink has no timeout
Init ==
    /\ SeqMapInit /\ RunnerCreated /\ DequeCreated /\ fetch = Untimed /\ pool = NoPool
    /\ sink = "concurrent" /\ ulog = <<>>
    /\ limit \in Limits /\ timeout = FALSE
    /\ pacing = TRUE /\ supplyInit = TRUE

Settle(g) ==
    \/ \E k \in 0..RemoteMax : GetUpdatesResolves(g, k)
    \/ \E e \in {"net", "fatal", "e429", "abort"}, retry \in BOOLEAN :
          GetUpdatesRejects(g, e, retry)

Next ==
    \/ \E wait \in BOOLEAN : Start(wait)
    \/ Stop
    \/ \E g \in Gens : InitResolves(g)
    \/ \E g \in Gens : InitRejects(g)
    \/ \E g \in Gens : Settle(g)
    \/ \E g \in Gens, retry \in BOOLEAN : Sleep429Done(g, retry)
    \/ \E g \in Gens : SleepDone(g)
    \/ \E g \in Gens, wait \in BOOLEAN : GenAfterSupply(g, wait)
    \/ \E g \in Gens : GenCatch(g)
    \/ \E g \in Gens : WaitTimer(g)
    \/ \E g \in Gens : GenAfterWait(g)
    \/ \E r \in Runners, wait \in BOOLEAN : RunnerAfterHandle(r, wait)
    \/ \E r \in Runners : RunnerEnd(r)
    \/ \E k \in 1..MaxQ : TaskResolves(k)

Spec == Init /\ [][Next]_vars

\* the steps of one generator and of the calls it awaits, and of one runner()
GenStep(g) ==
    \/ InitResolves(g) \/ InitRejects(g)
    \/ Settle(g)
    \/ \E retry \in BOOLEAN : Sleep429Done(g, retry)
    \/ SleepDone(g)
    \/ \E wait \in BOOLEAN : GenAfterSupply(g, wait)
    \/ GenCatch(g)
    \/ WaitTimer(g)
    \/ GenAfterWait(g)

RunnerStep(r) ==
    \/ \E wait \in BOOLEAN : RunnerAfterHandle(r, wait)
    \/ RunnerEnd(r)

\* the runner with a remote service that may also answer a call whose
\* signal is raised
RaceNext ==
    \/ Next
    \/ \E g \in Gens, k \in 0..RemoteMax : GetUpdatesResolvesLate(g, k)

RaceSpec == Init /\ [][RaceNext]_vars

\* every continuation runs, every timer fires, and every promise of the
\* environment settles: bot.init(), getUpdates, consume
FairSpec ==
    /\ Spec
    /\ \A g \in Gens : WF_vars(GenStep(g))
    /\ \A r \in Runners : WF_vars(RunnerStep(r))
    /\ WF_vars(\E k \in 1..MaxQ : TaskResolves(k))

\* a DecayingDeque on its own, with add() called from outside

DequeInit ==
    /\ SeqMapInit /\ RunnerCreated /\ DequeCreated /\ fetch = Untimed /\ pool = NoPool
    /\ sink = "concurrent" /\ ulog = [u \in Ids |-> NoLog]
    /\ limit \in Limits /\ timeout \in BOOLEAN
    /\ pacing = FALSE /\ supplyInit = FALSE

DequeNext ==
    \/ \E c \in Runners, n \in 0..MaxQ : AddCall(c, n)
    \/ \E c \in Runners : AddContinues(c)
    \/ \E k \in 1..MaxQ : TaskResolves(k)
    \/ \E k \in 1..MaxQ : TaskRejects(k)
    \/ \E k \in 1..MaxQ, ok \in BOOLEAN : ErrorHandled(k, ok)
    \/ \E d \in 1..MaxQ : Timeout(d)
    \/ \E u \in Ids, ok \in BOOLEAN : LateSettles(u, ok)

DequeSpec == DequeInit /\ [][DequeNext]_vars

\* a sequential sink or a batch sink on its own, with handle() called from
\* outside
SinkInit ==
    /\ SeqMapInit /\ RunnerCreated /\ DequeCreated /\ fetch = Untimed /\ pool = NoPool
    /\ sink \in {"sequential", "batch"} /\ ulog = [u \in Ids |-> NoLog]
    /\ limit = NoConcurrency /\ timeout \in BOOLEAN
    /\ pacing = FALSE /\ supplyInit = FALSE

SinkNext ==
    \/ \E c \in Runners, n \in 0..MaxQ : HandleCall(c, n)
    \/ \E c \in Runners : HandleContinues(c)
    \/ \E c \in Runners : HandleReturns(c)
    \/ \E k \in 1..MaxQ : TaskResolves(k)
    \/ \E k \in 1..MaxQ : TaskRejects(k)
    \/ \E k \in 1..MaxQ, ok \in BOOLEAN : ErrorHandled(k, ok)
    \/ \E d \in 1..MaxQ : Timeout(d)
    \/ \E u \in Ids, ok \in BOOLEAN : LateSettles(u, ok)

SinkSpec == SinkInit /\ [][SinkNext]_vars

\* a fetcher on its own, with a clock, and a remote service that answers
\* with any batch
RetryIntervals ==
    {Exponential, Quadratic} \cup {[kind |-> "number", ms |-> n] : n \in 1..MaxInterval}
\* the batch sizes the source asks for: a capacity of the sink, or Infinity
BatchSizes == {0, 1, 2, MaxBatch - 1, MaxBatch, MaxBatch + 1, Infinity}
RemoteBatches ==
    {<<>>} \cup {<<u>> : u \in Ids} \cup {<<u, v>> : u, v \in Ids}

FetchInit ==
    /\ SeqMapInit /\ RunnerCreated /\ DequeCreated
    /\ sink = "concurrent" /\ ulog = <<>>
    /\ limit = 1 /\ timeout = FALSE /\ pacing = FALSE /\ supplyInit = FALSE
    /\ \E m \in 0..MaxRetryTime, i \in RetryIntervals : fetch = NoFetch(m, i)
    /\ pool = NoPool

FetchNext ==
    \/ \E batchSize \in BatchSizes : TimedCall(batchSize)
    \/ \E dt \in 0..1, updates \in RemoteBatches : TimedResolves(dt, updates)
    \/ \E dt \in 0..1, e \in {"net", "fatal", "e429", "abort"} : TimedRejects(dt, e)
    \/ \E delay \in 1..2 : Timed429Done(delay)
    \/ \E late \in 0..1 : TimedSleepDone(late)
    \/ TimedAbort
    \/ TimedTaken

FetchSpec == FetchInit /\ [][FetchNext]_vars

\* a deque with a limit of 3 that is given six updates by one add() call;
\* the tasks resolve or reject in any order
ScenarioInit ==
    /\ SeqMapInit /\ RunnerCreated /\ DequeCreated /\ fetch = Untimed /\ pool = NoPool
    /\ sink = "concurrent" /\ ulog = <<>>
    /\ limit = ScenarioLimit /\ timeout = FALSE
    /\ pacing = FALSE /\ supplyInit = FALSE

ScenarioNext ==
    \/ AddBatch(1)
    \/ AddContinues(1)
    \/ \E k \in 1..ScenarioBatch : TaskResolves(k)
    \/ \E k \in 1..ScenarioBatch : TaskRejects(k)
    \/ \E k \in 1..ScenarioBatch, ok \in BOOLEAN : ErrorHandled(k, ok)

ScenarioSpec == ScenarioInit /\ [][ScenarioNext]_vars

\* distribute() on its own: a pool of `count` threads (4 when the option
\* is absent) that is given updates with any ids
PoolInit ==
    /\ SeqMapInit /\ RunnerCreated /\ DequeCreated
    /\ sink = "concurrent" /\ ulog = <<>>
    /\ limit = 1 /\ timeout = FALSE /\ pacing = FALSE /\ supplyInit = FALSE
    /\ fetch = Untimed
    /\ \E options \in {<<>>} \cup {<<n>> : n \in 1..MaxCount} : pool = ThreadPool(options)

PoolNext ==
    \/ \E update_id \in 1..MaxUpdateId : ProcessCall(update_id)
    \/ \E i \in 0..Max2(MaxCount, DefaultCount) : WorkerReceives(i)
    \/ \E i \in 0..Max2(MaxCount, DefaultCount), k \in 1..MaxCalls, ok \in BOOLEAN :
          HandleUpdateSettles(i, k, ok)
    \/ \E i \in 0..Max2(MaxCount, DefaultCount) : MessageArrives(i)

PoolSpec == PoolInit /\ [][PoolNext]_vars

\* every message is delivered, and every handleUpdate settles
PoolFairSpec ==
    /\ PoolSpec
    /\ \A i \in 0..Max2(MaxCount, DefaultCount) :
          /\ WF_vars(WorkerReceives(i))
          /\ WF_vars(MessageArrives(i))
          /\ \A k \in 1..MaxCalls :
                WF_vars(\E ok \in BOOLEAN : HandleUpdateSettles(i, k, ok))

(***************************************************************************)
(* Properties of sequentialize()                                           *)
(***************************************************************************)
Called(i) == i <= ncalled
KeySet(i) == Range(ics[i])
Clash(i, j) == KeySet(i) \cap KeySet(j) # {}
\* next() of i has been called / has settled
NextStarted(i) == nstarts[i] > 0
NextSettled(i) == inext[i] # Pending

\* the invocations whose settling j's clot promise is still waiting for
DirectBlockers(j) ==
    {iprev[j][k] : k \in 1..Len(iprev[j])} \ ({0} \cup {t \in Invs : TaskSettled(t)})

\* ... and, through them, the ones those are waiting for in turn
RECURSIVE Blockers(_)
Blockers(j) ==
    IF ipc[j] # "clot" THEN {}
    ELSE DirectBlockers(j) \cup UNION {Blockers(t) : t \in DirectBlockers(j)}

\* C1: if two invocations share a key, the later one's next() is started only
\* after the earlier one's next() has settled (resolved or rejected).
C1_Ordering ==
    \A i \in Invs : \A j \in Invs :
        (i < j /\ Called(j) /\ Clash(i, j) /\ NextStarted(j)) => NextSettled(i)

\* three invocations on one key: the third runs, the first one had rejected
C1_Witness ==
    /\ NumInv >= 3
    /\ Clash(1, 2) /\ Clash(2, 3) /\ Clash(1, 3)
    /\ IsErr(inext[1]) /\ inext[2] = Ok /\ ipc[3] = "next"

\* C2 as stated: an invocation is never made to wait for the settling of an
\* earlier invocation whose key set is disjoint from its own.
C2_NeverWaitsForDisjoint ==
    \A j \in Invs : \A i \in Blockers(j) : Clash(i, j)

\* C2 as amended: an invocation is held back only while some earlier
\* invocation that shares a key with it has not settled; once all of those
\* have settled its clot promise is resolved, whatever else is in flight.
C2_HeldOnlyByClashing ==
    \A j \in Invs :
        (ipc[j] = "clot" /\ \A i \in 1..(j - 1) : Clash(i, j) => TaskSettled(i))
            => ClotOutcome(j) = Ok

\* an invocation is ready to run although an earlier, disjoint one is still
\* in its next()
C2_Witness ==
    \E i \in Invs : \E j \in Invs :
        /\ i < j /\ ~Clash(i, j) /\ KeySet(i) # {} /\ KeySet(j) # {}
        /\ ipc[i] = "next" /\ ipc[j] = "clot" /\ ClotOutcome(j) = Ok
        /\ \E h \in 1..(j - 1) : Clash(h, j) /\ TaskSettled(h)

\* C3: next() of every invocation is called at most once, and it is called
\* eventually when the next() calls of the earlier invocations settle, also
\* when some of them rejected.
C3_NextEventuallyCalledOnce ==
    /\ [](\A i \in Invs : nstarts[i] <= 1)
    /\ \A i \in Invs : (ipc[i] = "clot") ~> (nstarts[i] = 1)

\* an invocation runs after the one it was chained on had rejected
C3_Witness ==
    \E i \in Invs : \E j \in Invs :
        /\ i < j /\ Clash(i, j) /\ IsErr(itask[i]) /\ ipc[j] = "next" /\ nstarts[j] = 1

\* C4: the promise returned by an invocation rejects exactly when its own
\* next() rejected, and then with that error; no invocation's promise
\* rejects with the error of another invocation's next().
C4_ErrorRouting ==
    \A i \in Invs :
        /\ IsErr(ires[i]) => ires[i] = Err(i) /\ inext[i] = Err(i)
        /\ IsErr(itask[i]) => itask[i] = Err(i)
        /\ (ipc[i] = "returned" /\ IsErr(inext[i])) => ires[i] = inext[i]

\* the first of two clashing invocations rejected, the second returned normally
C4_Witness ==
    \E i \in Invs : \E j \in Invs :
        /\ i < j /\ Clash(i, j)
        /\ ipc[i] = "returned" /\ ires[i] = Err(i)
        /\ ipc[j] = "returned" /\ ires[j] = Ok

(***************************************************************************)
(* Properties of the runner and of the deque                               *)
(***************************************************************************)
\* the sink's size: the number of updates being processed
Size == Len(q)

\* C5: with sink concurrency L, and getUpdates returning at most `limit`
\* updates, the number of updates processed at the same time never exceeds L.
C5_SizeWithinLimit == Size <= limit

\* C6: an add() promise resolves with L minus the size of the deque at that
\* moment, which is at least 1; a promise is left pending only while the
\* size is at least L.
C6_CapacityReporting ==
    /\ \A c \in Runners :
          hres[c] # Unsettled => hres[c] = limit - hsize[c] /\ hres[c] >= 1
    /\ \A c \in Range(subs) : hres[c] = Unsettled /\ Size >= limit

\* one add() has resolved with the capacity that was left, and the next one,
\* which filled the deque, is pending
C6_Witness ==
    \E c, d \in Runners :
        /\ hres[c] >= 1 /\ hsize[c] >= 1
        /\ d \in Range(subs) /\ Size >= limit

\* C7: when the promise returned by stop() resolves, the sink's size is 0.
C7_StopAwaitsInFlight ==
    [][\A r \in Runners :
          (r \in stopped /\ rpc[r] # "resolved" /\ rpc'[r] = "resolved") => Len(q') = 0]_vars

\* C8: the promise returned by stop() never rejects, and it eventually
\* resolves (getUpdates rejects once its signal is raised, handlers finish).
C8_StopResolvesQuietly ==
    /\ [](\A r \in stopped : rpc[r] # "rejected")
    /\ \A r \in Runners : (r \in stopped) ~> (rpc[r] = "resolved")

\* C9: from stop() to the next start(), the signal of every getUpdates call
\* in flight is raised, and no getUpdates call is issued.
C9_StopEndsFetching ==
    [][(lastCmd = "stop" /\ lastCmd' = "stop") =>
          \A g \in Gens : gpc'[g] = "call" => (gpc[g] = "call" /\ aborted'[g])]_vars

\* C10: after stop() and then start(), until the next stop() or a fatal
\* error, isRunning() is true and the loop of the new run is pulling or
\* handling batches.
C10_RestartedRunnerRuns ==
    lastCmd = "restart" =>
        /\ IsRunning
        /\ task # 0 /\ rpc[task] \in {"next", "handle"}

\* a step that is a call of start(), and one that is a call of stop()
StartStep == \E r \in Runners : rpc[r] = "unborn" /\ rpc'[r] # "unborn"
StopStep == stopped' # stopped

\* C11: isRunning() is true when start() returns, false when stop() returns,
\* and once false it becomes true only by a call of start().
C11_IsRunningFollowsCommands ==
    [][/\ StartStep => IsRunning'
       /\ StopStep => ~IsRunning'
       /\ (~IsRunning /\ IsRunning') => StartStep]_vars

\* stop() has returned, its promise is still pending, and isRunning() is false
C11_Witness ==
    /\ lastCmd = "stop" /\ ~IsRunning
    /\ \E r \in stopped : rpc[r] \notin {"resolved", "rejected"}

\* C12: task() returns undefined exactly when isRunning() returns false.
C12_TaskIffRunning == (task = 0) <=> ~IsRunning

\* C13: when getUpdates rejects with 401 or 409 and stop() was never called,
\* the error leaves the generator (the pending next() rejects), and the
\* promise of that runner() then rejects.
C13_FatalErrorsReachTask ==
    [][\A r \in Runners :
          /\ (/\ rgen[r] # 0 /\ stopped = {}
              /\ gpc[rgen[r]] = "failed" /\ gerr[rgen[r]] = "fatal"
              /\ gpc'[rgen[r]] = "done") => rpc'[r] = "threw"
          /\ (rpc[r] = "threw" /\ stopped = {} /\ rpc'[r] # "threw") => rpc'[r] = "rejected"]_vars

\* the updates in the deque
Elems(nodes) == {nodes[k].elem : k \in 1..Len(nodes)}
\* the updates the timeout handler is called for in a step
TimingOut == {u \in Ids : ulog'[u].timedOut # ulog[u].timedOut}

\* C14: the timeout handler is called for an update once only, while the
\* update is in the deque with its task pending; in that step the update
\* leaves the deque with the task still pending, the length drops by one for
\* each such update, and the add() calls that wait are resolved when that
\* makes capacity.
C14_TimeoutFreesSlot ==
    [][/\ \A u \in TimingOut :
             /\ ulog[u].st \in {"run", "catch"} /\ u \in Elems(q)
             /\ ulog[u].timedOut = 0 /\ ulog'[u].timedOut = 1
             /\ ulog'[u].st = "late" /\ u \notin Elems(q')
             /\ ulog'[u].left = ulog[u].left + 1
       /\ TimingOut # {} =>
             /\ Len(q') = Len(q) - Cardinality(TimingOut)
             /\ (subs # <<>> /\ Len(q') < limit) =>
                   /\ subs' = <<>>
                   /\ \A c \in Range(subs) : hres'[c] >= 1]_vars

\* two updates timed out with their tasks pending, nothing else was ever in
\* the deque, and an add() call is resolved
C14_Witness ==
    /\ Cardinality({u \in Ids : ulog[u].st = "late" /\ ulog[u].timedOut = 1}) >= 2
    /\ \A u \in Ids : ulog[u].st \in {"new", "late"}
    /\ \E c \in Runners : hres[c] >= 1 /\ hsize[c] < limit

\* the task of the update timed out, settled or not
Late(l) == l.st \in {"late", "lateOk", "lateErr"}

\* C15: once an update has timed out, the error handler is not called for
\* it and the length is not decremented for it again, and the step in which
\* its task settles changes nothing of the deque: no node, no waiting add()
\* call, no add() promise.
C15_LateSettlementIgnored ==
    [][\A u \in Ids : Late(ulog[u]) =>
          /\ Late(ulog'[u])
          /\ ulog'[u].caught = ulog[u].caught
          /\ ulog'[u].left = ulog[u].left
          /\ ulog'[u].timedOut = ulog[u].timedOut
          /\ ulog'[u].st # ulog[u].st =>
                /\ ulog[u].st = "late"
                /\ q' = q /\ subs' = subs /\ hres' = hres]_vars

\* a task was rejected after its update timed out: the timeout handler was
\* called for it, the error handler was not, and it left the deque once
C15_Witness ==
    \E u \in Ids :
        /\ ulog[u].st = "lateErr" /\ ulog[u].timedOut = 1
        /\ ulog[u].caught = 0 /\ ulog[u].left = 1

\* C16: the error handler is called for an update once only, when its
\* consume rejects in the deque, and the update keeps its slot meanwhile;
\* when the error handler settles, resolved or failed, the update leaves the
\* deque, the length drops by one and the add() calls that wait are resolved
\* if that makes capacity.
C16_HandlerFailureContained ==
    [][\A u \in Ids :
          /\ ulog'[u].caught # ulog[u].caught =>
                /\ ulog[u].st = "run" /\ ulog'[u].st = "catch"
                /\ ulog[u].caught = 0 /\ ulog'[u].caught = 1
                /\ u \in Elems(q') /\ Len(q') = Len(q)
          /\ ulog[u].st = "catch" =>
                ulog'[u].st \in {"catch", "handled", "unhandled", "late"}
          /\ (ulog[u].st = "catch" /\ ulog'[u].st \in {"handled", "unhandled"}) =>
                /\ u \notin Elems(q') /\ Len(q') = Len(q) - 1
                /\ ulog'[u].left = ulog[u].left + 1
                /\ (subs # <<>> /\ Len(q') < limit) =>
                      /\ subs' = <<>>
                      /\ \A c \in Range(subs) : hres'[c] = limit - Len(q')]_vars

\* the error handler failed for an update, and an update that was added
\* later has been consumed since
C16_Witness ==
    \E u, v \in Ids :
        /\ ulog[u].st = "unhandled" /\ ulog[u].caught = 1 /\ ulog[u].left = 1
        /\ v > u /\ ulog[v].st = "done"
        /\ \E c \in Runners : hres[c] >= 1 /\ hsize[c] = 0

\* the update is done: completed, failed and handled, or timed out
Finished(l) == l.st \notin {"new", "run", "catch"}
\* the updates whose consume is called in a step
Starting == {u \in Ids : ulog[u].st = "new" /\ ulog'[u].st = "run"}
\* a handle() call of another caller than c is in progress
OtherCall(c) == \E d \in Runners \ {c} : hcall[d].pc = "adding"

\* C17: with the sequential sink, a step calls consume for one update at
\* most; that update is the next of its handle() call, every update before
\* it in the batch is done, and so is every update of the earlier handle()
\* calls unless another call overlaps; and handle() resolves only when all
\* updates of its batch are done.
C17_SequentialOrder ==
    [][sink = "sequential" =>
          /\ Cardinality(Starting) <= 1
          /\ \A u \in Starting : \E c \in Runners :
                LET h == hcall'[c]
                IN  /\ h.pc = "adding" /\ h.i >= 1 /\ h.batch[h.i] = u
                    /\ h.i = IF hcall[c].pc = "adding" THEN hcall[c].i + 1 ELSE 1
                    /\ \A k \in 1..(h.i - 1) : Finished(ulog[h.batch[k]])
                    /\ ~OtherCall(c) => \A v \in 1..(u - 1) : Finished(ulog[v])
          /\ \A c \in Runners :
                (hcall[c].pc = "adding" /\ hcall'[c].pc = "resolved") =>
                    /\ hcall[c].i = Len(hcall[c].batch)
                    /\ \A k \in 1..Len(hcall[c].batch) : Finished(ulog[hcall[c].batch[k]])]_vars

\* the sequential sink consumes the second update of a batch after the first
\* one timed out, and an earlier handle() call has resolved
C17_Witness ==
    /\ sink = "sequential"
    /\ \E c \in Runners :
          /\ hcall[c].pc = "adding" /\ hcall[c].i = 2 /\ hcall[c].batch = <<2, 3>>
          /\ ulog[1].st = "handled" /\ ulog[2].st = "late" /\ ulog[3].st = "run"

\* C18: with the batch sink, handle(batch) resolves with Infinity, and only
\* when every update of the batch is done; a handle() call made while no
\* other is in progress starts consume for its whole batch, and every update
\* given before is done by then.
C18_BatchBarrier ==
    [][sink = "batch" =>
          /\ \A c \in Runners :
                (hcall[c].pc = "adding" /\ hcall'[c].pc = "resolved") =>
                    /\ hcall'[c].res = Infinity
                    /\ \A k \in 1..Len(hcall[c].batch) : Finished(ulog[hcall[c].batch[k]])
          /\ \A c \in Runners :
                (hcall[c].pc = "idle" /\ hcall'[c].pc # "idle") =>
                    /\ Starting = Range(hcall'[c].batch)
                    /\ ~OtherCall(c) =>
                          \A u \in Starting : \A v \in 1..(u - 1) :
                              v \in Starting \/ Finished(ulog[v])]_vars

\* the batch sink has resolved handle() for a batch of two updates, one
\* timed out and one failed, and consumes the next batch
C18_Witness ==
    /\ sink = "batch"
    /\ \E c \in Runners :
          /\ hcall[c].pc = "adding" /\ hcall[c].batch = <<3>> /\ ulog[3].st = "run"
          /\ ulog[1].st = "late" /\ ulog[2].st = "unhandled"
          /\ ~OtherCall(c)

\* sink.snapshot() is q.pendingTasks()
Snapshot == PendingTasks(q)

\* C19: the snapshot holds exactly the updates that were added and are not
\* done (their consume or their error handler is running), each once, in the
\* order in which they were added.
C19_SnapshotContent ==
    /\ Range(Snapshot) = {u \in Ids : ulog[u].st \in {"run", "catch"}}
    /\ \A j, k \in 1..Len(Snapshot) : j < k => Snapshot[j] < Snapshot[k]

\* the snapshot holds the first and the third update, the second is done
C19_Witness ==
    /\ Snapshot = <<1, 3>> /\ Finished(ulog[2])
    /\ ulog[1].st = "catch" /\ ulog[3].st = "run"

\* the updates that were given to add()
Admitted == {u \in Ids : ulog[u].st # "new"}
\* the number of times the length was decremented, for updates 1..n
RECURSIVE Decrements(_)
Decrements(n) == IF n = 0 THEN 0 ELSE ulog[n].left + Decrements(n - 1)

\* C20: the length is the number of updates admitted minus the number of
\* decrements; it is decremented once for each update that is done and
\* never for one that is not, so it is never negative.
C20_SizeAccounting ==
    /\ Size = Cardinality(Admitted) - Decrements(Cardinality(Ids))
    /\ Size >= 0
    /\ \A u \in Ids : ulog[u].left = IF Finished(ulog[u]) THEN 1 ELSE 0
    /\ Size = Cardinality({u \in Admitted : ~Finished(ulog[u])})

\* three updates were admitted: one completed, one timed out and settled
\* late, one failed and was handled; the length is 0
C20_Witness ==
    /\ Size = 0
    /\ \E u, v, w \in Ids :
          /\ ulog[u].st = "done" /\ ulog[v].st \in {"lateOk", "lateErr"}
          /\ ulog[w].st \in {"handled", "unhandled"}

\* the batch a getUpdates call of generator g returns in a step
Returned(g) == IF gpc[g] = "call" /\ gpc'[g] = "supplied" THEN gitems'[g] ELSE <<>>

\* C21: the offset never decreases, and a getUpdates call returns no update
\* that an earlier call returned (the remote answers in ascending order from
\* the requested offset, so the updates below the offset are those returned).
C21_NoUpdatePulledTwice ==
    [][/\ offset' >= offset
       /\ \A g \in Gens : \A k \in 1..Len(Returned(g)) : Returned(g)[k] >= offset]_vars

\* C22: when getUpdates rejects with 401 or 409, fetchUpdates throws that
\* error in the same step: it does not sleep and leaves the offset as it
\* is, and the call makes no further getUpdates call.
C22_FailFast ==
    [][\A g \in Gens :
          /\ (gpc[g] = "call" /\ gpc'[g] # "call" /\ gerr'[g] = "fatal") =>
                gpc'[g] = "failed" /\ offset' = offset
          /\ (gpc[g] = "failed" /\ gerr[g] = "fatal") =>
                gpc'[g] \in {"failed", "done"}]_vars

\* fetchUpdates has thrown a 401 or 409 of a signal that is not aborted
C22_Witness ==
    \E g \in Gens : gpc[g] = "failed" /\ gerr[g] = "fatal" /\ ~aborted[g] /\ offset > 0

\* the time since the fetchUpdates call began
Elapsed == fetch.now - fetch.began

\* C23, as claimed: a call that gave up retrying threw after at least
\* maxRetryTime.
C23_GaveUpAfterMaxRetryTime ==
    (fetch.pc = "threw" /\ fetch.why = "gaveUp" /\ ~fetch.aborted) =>
        Elapsed >= fetch.maxRetryTime

\* C23, amended: a call ends by returning a batch or by throwing one error,
\* and when it gave up retrying, the next retry would not have started
\* before maxRetryTime was over: elapsed time + retryIn >= maxRetryTime.
C23_GaveUpWhenRetryTooLate ==
    /\ fetch.nthrown = (IF fetch.pc = "threw" THEN 1 ELSE 0)
    /\ fetch.pc = "threw" => fetch.error # "" /\ fetch.why # ""
    /\ (fetch.pc = "threw" /\ fetch.why = "gaveUp") =>
          /\ fetch.error \in {"net", "e429"}
          /\ Elapsed + fetch.retryIn >= fetch.maxRetryTime

\* a call gave up after a retry, before maxRetryTime was over
C23_Witness ==
    /\ fetch.pc = "threw" /\ fetch.why = "gaveUp"
    /\ fetch.retryIn > InitialRetryIn(fetch.retryInterval)
    /\ Elapsed < fetch.maxRetryTime

(***************************************************************************)
(* C24: routing of distribute()                                            *)
(***************************************************************************)
\* the process() call made by this step, as a set (empty when the step is
\* not a process() call)
Posting == {c \in DOMAIN pool.calls' : c > Len(pool.calls)}

\* C24: a process(update) call posts the update to exactly one thread of
\* the pool, the one at index update_id mod count, and to no other thread,
\* for every count >= 1 (4 when the option is absent); two calls with the
\* same update_id post to the same thread, and calls with consecutive
\* update_ids post to consecutive threads, wrapping around after the last
C24_Routing ==
    [][\A c \in Posting :
          LET call == pool.calls'[c]
              N == pool.count
          IN /\ N >= 1 /\ pool.count' = N
             /\ call.thread = call.update_id % N
             /\ \A i \in Threads(N) :
                   pool.inbox'[i] = IF i = call.update_id % N
                                    THEN Append(pool.inbox[i], call.update_id)
                                    ELSE pool.inbox[i]
             /\ \A d \in DOMAIN pool.calls :
                   LET old == pool.calls[d]
                   IN /\ old.update_id = call.update_id => old.thread = call.thread
                      /\ old.update_id + 1 = call.update_id =>
                            call.thread = (old.thread + 1) % N]_vars

\* with the default of 4 threads, updates 3, 4 and 5 were posted to the
\* threads 3, 0 and 1
C24_Witness ==
    /\ pool.count = DefaultCount /\ Len(pool.calls) = 3
    /\ \A c \in 1..3 : pool.calls[c].update_id = c + 2
    /\ pool.calls[1].thread = 3 /\ pool.calls[2].thread = 0 /\ pool.calls[3].thread = 1

(***************************************************************************)
(* C25, C26: the counters of sequentialize()                               *)
(***************************************************************************)
\* how often the key c occurs in cs
Occurrences(cs, c) == Cardinality({k \in 1..Len(cs) : cs[k] = c})

\* the invocations that were made and whose task has not settled
Unsettled_tasks == {i \in Invs : ipc[i] # "new" /\ itask[i] = Pending}

RECURSIVE SumOver(_, _)
SumOver(is, c) ==
    IF is = {} THEN 0
    ELSE LET i == CHOOSE j \in is : TRUE
         IN  Occurrences(ics[i], c) + SumOver(is \ {i}, c)

\* the number of times c is listed by invocations whose task has not settled
LiveReferences(c) == SumOver(Unsettled_tasks, c)

\* C25: a key is in the map exactly when some invocation whose task has not
\* settled lists it, and then its len is the number of times such
\* invocations list it (a key listed twice by one invocation counts twice),
\* so len is at least 1 for every key of the map and the entry goes when
\* the count reaches 0
C25_RefcountInvariant ==
    \A c \in Keys :
        IF LiveReferences(c) = 0 THEN map[c] = NoClot
        ELSE map[c] # NoClot /\ map[c].len = LiveReferences(c) /\ map[c].len >= 1

\* a key is listed twice by one unsettled invocation and once by another,
\* after an invocation on the same key has settled
C25_Witness ==
    /\ map["a"] # NoClot /\ map["a"].len = 3
    /\ \E i \in Unsettled_tasks : Occurrences(ics[i], "a") = 2
    /\ \E i \in Invs : ipc[i] # "new" /\ itask[i] # Pending /\ Occurrences(ics[i], "a") >= 1

\* the invocations that were made and list the key c
Listing(c) == {i \in Invs : ipc[i] # "new" /\ Occurrences(ics[i], c) > 0}

\* C26: a key whose invocations have all settled is not in the map, so the
\* map is empty once every invocation has settled, whether their next()
\* resolved or rejected and whether or not they overlapped on a key
C26_MapCleanup ==
    /\ \A c \in Keys : (\A i \in Listing(c) : itask[i] # Pending) => map[c] = NoClot
    /\ (\A i \in Invs : ipc[i] # "new" => itask[i] # Pending) => \A c \in Keys : map[c] = NoClot

\* three invocations on the key "a" were made while the one before was
\* still running, one listing it twice; all have returned, one with the
\* error of its next(), and the map is empty
C26_Witness ==
    /\ ncalled = NumInv /\ \A i \in Invs : ipc[i] = "returned"
    /\ \A i \in Invs : i > 1 => (i - 1) \in Range(iprev[i])
    /\ \E i \in Invs : ics[i] = <<"a", "a">>
    /\ \E i \in Invs : IsErr(ires[i])
    /\ \A c \in Keys : map[c] = NoClot

(***************************************************************************)
(* C27: one loop, one call                                                 *)
(***************************************************************************)
\* the runner() loops that are waiting for a batch or handling one, and the
\* generators whose getUpdates call is in flight
Looping == {r \in Runners : rpc[r] \in {"next", "handle"}}
InFlight == {g \in Gens : gpc[g] = "call"}

\* C27: whatever start() and stop() calls are made, at most one runner()
\* loop consumes the source and at most one getUpdates call is in flight.
C27_SinglePullLoop == Cardinality(Looping) <= 1 /\ Cardinality(InFlight) <= 1

(***************************************************************************)
(* C28: a batch that was fetched is handled                                *)
(***************************************************************************)
\* the generators whose supply call has returned a batch that worker() has
\* not yielded yet, and those that yield it in this step
Supplied == {g \in Gens : gpc[g] = "supplied"}
Yielding == {g \in Supplied : gpc'[g] # "supplied"}

\* C28: a batch that getUpdates returned is kept until worker() yields it,
\* and it is then passed to sink.handle by the runner() that asked for it,
\* whole and in order; sink.handle is called for such a batch only, so each
\* batch is handled exactly once. This also holds when stop() was called
\* while the getUpdates call was in flight.
C28_FetchedBatchHandledOnce ==
    [][/\ \A g \in Supplied :
             /\ greq[g] # <<>> /\ rpc[greq[g][1].r] = "next"
             /\ g \notin Yielding => gitems'[g] = gitems[g] /\ greq'[g][1] = greq[g][1]
             /\ g \in Yielding =>
                   /\ rpc'[greq[g][1].r] = "handle"
                   /\ Len(q') = Len(q) + Len(gitems[g])
                   /\ \A k \in 1..Len(gitems[g]) : q'[Len(q) + k].elem = gitems[g][k]
       /\ \A g \in Gens : (g \notin Supplied /\ gpc'[g] = "supplied") => gpc[g] = "call"
       /\ \A r \in Runners :
             (rpc[r] # "handle" /\ rpc'[r] = "handle") =>
                \E g \in Yielding : greq[g][1].r = r /\ Cardinality(Yielding) = 1]_vars

\* stop() was called while a getUpdates call was in flight, the call has
\* returned update 1 all the same, and the runner() of the stopped run is
\* handling it
C28_Witness ==
    \E r \in stopped :
        /\ rpc[r] = "handle" /\ rgen[r] # 0
        /\ aborted[rgen[r]] /\ gargs[rgen[r]] # NoArgs
        /\ gitems[rgen[r]] = <<1>> /\ offset = 2
        /\ \E k \in 1..Len(q) : q[k].elem = 1

(***************************************************************************)
(* C29: a supply call that fails                                           *)
(***************************************************************************)
\* the generators whose catch block runs in this step
Catching == {g \in Gens : gpc[g] = "failed" /\ gpc'[g] = "done"}

\* C29: when supply has rejected and the signal of that call was not raised
\* by close(), the source closes itself (isActive() is false, a generator
\* that has not run is prepared) and the pending next() of the consumer
\* rejects with the error; when the signal was raised by close(), the
\* iteration ends and nothing is thrown.
C29_SupplyFailure ==
    [][\A g \in Catching :
          LET r == greq[g][1].r
          IN  IF ~aborted[g]
              THEN /\ ~active' /\ gpc'[updateGenerator'] = "start"
                   /\ rpc'[r] = "threw"
              ELSE rpc'[r] = "ending"]_vars

(***************************************************************************)
(* C30: the offset after a call                                            *)
(***************************************************************************)
\* the batch that the getUpdates call of fetchUpdates returns in this step,
\* as a set (empty when the step is no such return)
ReturnedNow == IF fetch.pc = "call" /\ fetch'.pc = "returned" THEN {fetch'.updates} ELSE {}

\* the largest update_id of a batch that is not empty
Largest(updates) ==
    CHOOSE m \in Range(updates) : \A u \in Range(updates) : u <= m

Ascending(updates) == \A k \in 1..(Len(updates) - 1) : updates[k] < updates[k + 1]

\* C30 as claimed: after a call that returns a batch that is not empty the
\* offset is the largest update_id of the batch plus 1, whatever the order
\* of the batch; after an empty batch or a failed call it is unchanged.
C30_OffsetIsLargestPlusOne ==
    [][/\ \A updates \in ReturnedNow :
             offset' = IF updates = <<>> THEN offset ELSE Largest(updates) + 1
       /\ ReturnedNow = {} => offset' = offset]_vars

\* C30, amended: after a call that returns a batch that is not empty the
\* offset is the update_id of the last update of the batch plus 1, which is
\* the largest plus 1 when the batch is in ascending order; after an empty
\* batch or a failed call it is unchanged.
C30_OffsetIsLastPlusOne ==
    [][/\ \A updates \in ReturnedNow :
             /\ offset' = IF updates = <<>> THEN offset
                          ELSE updates[Len(updates)] + 1
             /\ (updates # <<>> /\ Ascending(updates)) => offset' = Largest(updates) + 1
       /\ ReturnedNow = {} => offset' = offset]_vars

\* a call has returned the updates 3 and 1 in this order after an earlier
\* failure, and the offset is 2
C30_Witness ==
    /\ fetch.pc = "returned" /\ fetch.updates = <<3, 1>> /\ offset = 2
    /\ fetch.retryIn > InitialRetryIn(fetch.retryInterval)

(***************************************************************************)
(* C31: the limit of a getUpdates call                                     *)
(***************************************************************************)
\* C31: whatever batch size b the source asks for (0, more than 100 and
\* Infinity included), the limit given to getUpdates is min(max(b, 1), 100):
\* it lies in 1..100 and is not larger than b when b >= 1.
C31_LimitClamped ==
    fetch.pc # "idle" =>
        LET b == fetch.batchSize
            l == fetch.args.limit
        IN  /\ l = Min2(Max2(b, 1), 100)
            /\ 1 <= l /\ l <= 100
            /\ b >= 1 => l <= b

\* a call with batch size Infinity was given the limit 100, and kept it on
\* its retry
C31_Witness ==
    /\ fetch.pc = "call" /\ fetch.batchSize = Infinity /\ fetch.args.limit = 100
    /\ fetch.retryIn > InitialRetryIn(fetch.retryInterval)

(***************************************************************************)
(* C32: no retry after the signal is raised                                *)
(***************************************************************************)
\* the call rejects in this step while its signal is raised
RejectsAborted == fetch.pc = "call" /\ fetch.aborted /\ fetch'.pc \notin {"call", "returned"}

\* C32: when getUpdates rejects while the signal is raised, fetchUpdates
\* throws that error in the same step, whatever its error_code: it does not
\* sleep, it leaves the offset as it is, and the call makes no further
\* getUpdates call.
C32_NoRetryAfterAbort ==
    [][/\ RejectsAborted =>
             /\ fetch'.pc = "threw" /\ fetch'.why = "aborted"
             /\ fetch'.error \in {"net", "fatal", "e429", "abort"}
             /\ fetch'.nthrown = 1
             /\ offset' = offset
       /\ (fetch.pc = "threw" /\ fetch.why = "aborted") =>
             /\ fetch'.pc \in {"threw", "idle"}
             /\ offset' = offset]_vars

\* a call whose signal was raised during its second attempt has thrown a
\* 429 error that it would otherwise have waited for
C32_Witness ==
    /\ fetch.pc = "threw" /\ fetch.why = "aborted" /\ fetch.error = "e429"
    /\ fetch.aborted /\ fetch.retryIn > InitialRetryIn(fetch.retryInterval)

(***************************************************************************)
(* C33: add() calls that wait                                              *)
(***************************************************************************)
\* C33: the add() calls that wait for capacity are kept in the order of the
\* calls, and none is resolved in a step that leaves an earlier one waiting;
\* no call waits once the deque has capacity, so all of them are resolved
\* when tasks have completed.
C33_AddCallsServedInOrder ==
    [][/\ \A k \in 1..Len(subs) : \A j \in 1..(k - 1) :
             hres'[subs[k]] # Unsettled => hres'[subs[j]] # Unsettled
       /\ Len(subs') > Len(subs) =>
             /\ Len(subs') = Len(subs) + 1
             /\ SubSeq(subs', 1, Len(subs)) = subs
             /\ hres'[subs'[Len(subs')]] = Unsettled
       /\ \A c \in Range(subs) : c \notin Range(subs') => hres'[c] >= 1
       /\ HasCapacity(limit' - Len(q')) => subs' = <<>>]_vars

\* the second caller called add() first and the first caller after it; both
\* had to wait and both are resolved, with the same capacity
C33_Witness ==
    /\ hpos[2] = 1 /\ hpos[1] = 2
    /\ hres[1] # Unsettled /\ hres[2] = hres[1]
    /\ subs = <<>>

(***************************************************************************)
(* C34: one add() of six updates on a deque with a limit of 3              *)
(***************************************************************************)
\* the number of the six tasks that had left the deque when the promise of
\* add() was resolved
Drained == ScenarioBatch - hsize[1]

\* C34 as claimed: the add() of six updates on a deque with limit 3 resolves
\* with capacity 1, and it resolves when three of the six tasks have drained.
C34_ResolvesAfterThree ==
    hres[1] # Unsettled => hres[1] = 1 /\ Drained = 3

\* C34, amended: the add() of six updates on a deque with limit 3 resolves
\* with capacity 1, and it resolves when four of the six tasks have drained:
\* it waits while three or more are in the deque, and not longer.
C34_ResolvesAfterFour ==
    /\ hres[1] # Unsettled => hres[1] = 1 /\ Drained = 4 /\ hpos[1] = 1
    /\ subs # <<>> <=> Len(q) >= ScenarioLimit
    /\ Len(q) >= ScenarioLimit => hres[1] = Unsettled

\* the promise has resolved with capacity 1 and the last two tasks are still
\* in the deque
C34_Witness ==
    /\ hres[1] = 1 /\ hsize[1] = 2 /\ Len(q) = 2
    /\ {q[1].elem, q[2].elem} \subseteq 1..ScenarioBatch

(***************************************************************************)
(* C35: a firing of the timer                                              *)
(***************************************************************************)
\* the index in the deque of the node of update u
IndexOf(nodes, u) == CHOOSE k \in 1..Len(nodes) : nodes[k].elem = u

\* C35: a firing of the timer removes the nodes whose deadline has elapsed:
\* the oldest node and with it every node up to some deadline, none with that
\* deadline or an older one is left and none with a later one is taken. The
\* timeout handler is called once for each of them, from the oldest to the
\* newest. The nodes that stay keep their order, and while nodes stay the
\* timer can fire again, for the oldest of them first.
C35_TimeoutPurge ==
    /\ [][TimingOut # {} =>
             LET n == Cardinality(TimingOut)
             IN  /\ n <= Len(q) /\ TimingOut = {q[k].elem : k \in 1..n}
                 /\ \A k \in 1..n : \A j \in (n + 1)..Len(q) : q[k].date < q[j].date
                 /\ Len(q') = Len(q) - n
                 /\ \A k \in 1..Len(q') :
                       q'[k].elem = q[n + k].elem /\ q'[k].st = q[n + k].st
                 /\ \A u \in TimingOut :
                       /\ ulog[u].timedOut = 0 /\ ulog'[u].timedOut = 1
                       /\ ulog'[u].nth = HandlerCalls(ulog) + IndexOf(q, u)
                       /\ ulog'[u].firing = Firings(ulog) + 1
                 /\ q' # <<>> => timeout' /\ q'[1].date = 1]_vars
    /\ [](timeout /\ q # <<>> => ENABLED Timeout(1))

\* one firing has taken the updates 1 and 2, in this order, and has left
\* update 3, which was added later and whose task is running
C35_Witness ==
    /\ ulog[1].firing = 1 /\ ulog[2].firing = 1
    /\ ulog[1].nth = 1 /\ ulog[2].nth = 2
    /\ Len(q) = 1 /\ q[1].elem = 3 /\ q[1].st = "run"
(***************************************************************************)
(* C36: the pacing wait of the source                                      *)
(***************************************************************************)
\* the generators that begin a pacing wait in a step
BeginWait == {g \in Gens : gpc[g] # "wait" /\ gpc'[g] = "wait"}

\* C36: the source suspends between two supply calls only if the computed
\* wait is positive and the batch just yielded had fewer than 100 items, so
\* never with speedTrafficBalance 0 and never after a batch of 100 or more;
\* and close() ends a wait in progress at once: after it no generator waits.
C36_PacingWait ==
    [][/\ \A g \in BeginWait : pacing /\ Len(gitems[g]) < FullBatch
       /\ updateGenerator' # updateGenerator => \A g \in Gens : gpc'[g] # "wait"]_vars

(***************************************************************************)
(* C37, C38: the resolvers of the distributor                              *)
(***************************************************************************)
\* the process() calls made so far, and those whose promise is pending
ProcessCalls == DOMAIN pool.calls
Awaiting == {c \in ProcessCalls : pool.calls[c].pc = "await"}

\* a process() call was made for an update_id that another pending call had
Collision == \E c \in ProcessCalls : pool.calls[c].replaced

\* the map holds the resolver of every pending call under its update_id,
\* and nothing else
ResolverPerPending ==
    /\ \A c \in Awaiting : pool.tasks[pool.calls[c].update_id] = c
    /\ \A u \in DOMAIN pool.tasks : pool.tasks[u] # 0 => pool.tasks[u] \in Awaiting

\* the update_ids whose entry leaves the map in this step, and the
\* update_id that arrives in the parent in this step, as a set
Deleted == {u \in DOMAIN pool.tasks : pool.tasks[u] # 0 /\ pool.tasks'[u] = 0}
Arriving ==
    {u \in DOMAIN pool.tasks :
        \E i \in Threads(pool.count) :
            /\ pool.outbox[i] # <<>> /\ Head(pool.outbox[i]) = u
            /\ pool.outbox'[i] = Tail(pool.outbox[i])}

\* a resolver leaves the map when and only when the message with its
\* update_id arrives
RemovedOnAck ==
    /\ Deleted \subseteq Arriving
    /\ \A u \in Arriving : pool.tasks'[u] = 0

\* C37 as stated: the map holds exactly one resolver for every update given
\* to process() and not yet acknowledged and none for any other update_id,
\* and a resolver is removed when and only when the worker's message for
\* its update_id arrives.
C37_OneResolverPerUpdate ==
    /\ [](pool # NoPool => ResolverPerPending)
    /\ [][pool # NoPool => RemovedOnAck]_vars

\* C37: as long as no process() call is made for an update_id that another
\* pending call has, the map holds exactly the resolvers of the pending
\* calls, each under its update_id; and always a resolver is removed when
\* and only when the worker's message for its update_id arrives.
C37_OneResolverPerDistinctUpdate ==
    /\ [](pool # NoPool /\ ~Collision => ResolverPerPending)
    /\ [][pool # NoPool => RemovedOnAck]_vars

\* three calls with different update_ids: the first is acknowledged and
\* resolved, the map holds the resolvers of the other two
C37_Witness ==
    /\ Len(pool.calls) = 3 /\ ~Collision
    /\ pool.calls[1].pc = "resolved" /\ pool.tasks[pool.calls[1].update_id] = 0
    /\ Awaiting = {2, 3}
    /\ pool.tasks[pool.calls[2].update_id] = 2 /\ pool.tasks[pool.calls[3].update_id] = 3

\* the worker of call c has posted the update_id of c back, the message is
\* on its way, and the promise of c is pending
PostedBack(c) ==
    /\ pool # NoPool /\ c \in Awaiting
    /\ \E k \in DOMAIN pool.outbox[pool.calls[c].thread] :
          pool.outbox[pool.calls[c].thread][k] = pool.calls[c].update_id
Resolved(c) == pool # NoPool /\ c \in ProcessCalls /\ pool.calls[c].pc = "resolved"

\* the promise of a call is resolved only by the arrival of a message of
\* its thread with its update_id, and the arrival of an update_id that has
\* no resolver changes neither the map nor any call
ResolvedByAck ==
    /\ \A c \in Awaiting :
          pool.calls'[c].pc = "resolved" =>
             LET i == pool.calls[c].thread
             IN  /\ pool.outbox[i] # <<>> /\ pool.outbox'[i] = Tail(pool.outbox[i])
                 /\ Head(pool.outbox[i]) = pool.calls[c].update_id
    /\ \A u \in Arriving :
          pool.tasks[u] = 0 => pool.tasks' = pool.tasks /\ pool.calls' = pool.calls

\* C38 as stated: the promise of process(update) resolves only after the
\* chosen worker has posted that update_id back, and eventually resolves
\* once it has; a message for an update_id without a pending call is
\* ignored.
C38_ResolvesOnAck ==
    /\ [][pool # NoPool => ResolvedByAck]_vars
    /\ \A c \in 1..MaxCalls : PostedBack(c) ~> Resolved(c)

\* C38: the promise of process(update) resolves only after the chosen
\* worker has posted that update_id back; it eventually resolves once the
\* worker has, unless a process() call is made for an update_id that another
\* pending call has; a message for an update_id without a resolver is
\* ignored.
C38_ResolvesOnAckOfDistinctUpdate ==
    /\ [][pool # NoPool => ResolvedByAck]_vars
    /\ \A c \in 1..MaxCalls : PostedBack(c) ~> (Resolved(c) \/ Collision)

\* the worker of thread 1 has handled update 1 and posted it back, the
\* message has arrived and has resolved the call, while the call for update
\* 2 is pending
C38_Witness ==
    /\ Len(pool.calls) = 2 /\ ~Collision
    /\ pool.calls[1].update_id = 1 /\ Resolved(1)
    /\ pool.calls[2].update_id = 2 /\ 2 \in Awaiting
    /\ \A i \in Threads(pool.count) : pool.outbox[i] = <<>>

(***************************************************************************)
(* C39, C40: the worker                                                    *)
(***************************************************************************)
\* the updates that worker i has passed to its callback, in order
JobIds(i) == [k \in DOMAIN pool.worker[i].jobs |-> pool.worker[i].jobs[k].update_id]

\* how many messages worker i has posted so far: those that have arrived
\* in the parent are no longer in its outbox, and each of them was posted
\* by a job that is "posted"
PostedJobs(i) == {k \in DOMAIN pool.worker[i].jobs : pool.worker[i].jobs[k].pc = "posted"}

\* worker i has passed its k-th update to the callback
Received(i, k) ==
    pool # NoPool /\ i \in Threads(pool.count) /\ k \in DOMAIN pool.worker[i].jobs

\* C39: for every update message that a BotWorker receives it posts the
\* update_id back exactly once, after handleUpdate has settled and not
\* before, so that the process() call of the parent eventually completes.
C39_AckAfterHandle ==
    /\ [][pool # NoPool =>
            \A i \in Threads(pool.count) :
               /\ Len(pool.outbox'[i]) > Len(pool.outbox[i]) =>
                     \E k \in DOMAIN pool.worker[i].jobs :
                        /\ pool.worker[i].jobs[k].pc = "handle"
                        /\ pool.worker'[i].jobs[k].pc = "posted"
                        /\ pool.outbox'[i] =
                              Append(pool.outbox[i], pool.worker[i].jobs[k].update_id)
               /\ \A k \in PostedJobs(i) : pool.worker'[i].jobs[k] = pool.worker[i].jobs[k]]_vars
    /\ \A i \in 0..Max2(MaxCount, DefaultCount) : \A k \in 1..MaxCalls :
          Received(i, k) ~> (Received(i, k) /\ k \in PostedJobs(i))
    /\ \A c \in 1..MaxCalls :
          (pool # NoPool /\ c \in ProcessCalls) ~> (Resolved(c) \/ Collision)

\* the update_ids that process() has posted to thread i, in call order
SentTo(i) ==
    LET mine == SelectSeq(pool.calls, LAMBDA call : call.thread = i)
    IN  [k \in DOMAIN mine |-> mine[k].update_id]

\* C40: the parent posts the seed to each worker before any update, and the
\* worker takes exactly the first message it receives as the seed and passes
\* every later message, in order, to the update callback: what a worker has
\* passed to the callback followed by what is on its way to it is what
\* process() has posted to it, and the seed of the worker is `me`.
C40_SeedThenUpdates ==
    pool # NoPool =>
       \A i \in Threads(pool.count) :
          LET w == pool.worker[i]
          IN  IF w.seeded
              THEN w.seed = Me /\ JobIds(i) \o pool.inbox[i] = SentTo(i)
              ELSE /\ w.seed = NoSeed /\ w.jobs = <<>>
                   /\ pool.inbox[i] = <<Me>> \o SentTo(i)

\* worker 1 of 4 has taken `me` as its seed and has passed the updates 5
\* and 1, posted in this order, to its callback
C40_Witness ==
    /\ pool.count = DefaultCount
    /\ pool.worker[1].seeded /\ pool.worker[1].seed = Me
    /\ JobIds(1) = <<5, 1>> /\ pool.inbox[1] = <<>>
====
